---- MODULE Spec2Model ----
(***************************************************************************)
(* Model of src/scripts.js (Hollywood Mastery Destiny Protocol): the       *)
(* localStorage wrapper (safeLocalStorageGet / safeLocalStorageSet /       *)
(* clearOldData), the daily-record operations (addTask, toggleTask, ...,   *)
(* saveAlignment, updateDomainProgress) and the metrics engine (loadStreak,*)
(* getLast7DaysData, calculateMomentumScore and its four factors).         *)
(*                                                                         *)
(* Representation.                                                         *)
(*  - localStorage is a function from key strings to stored items.  An     *)
(*    item is [json |-> v] (a text that JSON.parse accepts, v its parse    *)
(*    tree) or [raw |-> s] (a text JSON.parse rejects; s = "" is the empty *)
(*    string).                                                             *)
(*  - A JS value whose type the code tests is tagged: [t |-> "object",     *)
(*    o |-> fields], [t |-> "null"], [t |-> "number", n |-> 5], ...        *)
(*    An object's fields are a function from field names; an absent field  *)
(*    is `undefined`.  In a day record `domains` is a function from domain *)
(*    names to [total, activities], `tasks` a sequence of task records,    *)
(*    `totalXP` an integer and `alignment` a tagged value (the code tests  *)
(*    typeof alignment).  Timestamps are left out of tasks and activities. *)
(*  - A calendar day is an integer, the number of days since 2026-01-01;   *)
(*    toISOString().split('T')[0] is ToISODate.  The clock's zone is UTC   *)
(*    and the time of day is after midnight.                               *)
(*  - Fractions (the momentum factors) are exact: [num, den] with den > 0. *)
(***************************************************************************)
EXTENDS Integers, Sequences, FiniteSets, TLC

VARIABLES
    localStorage,           \* window.localStorage: key -> item
    today,                  \* the day `new Date()` falls on
    clock,                  \* Date.now(), the source of task ids
    currentCategory,        \* scripts.js:496
    currentEditingTaskId,   \* scripts.js:497, 0 models null
    dom,                    \* the DOM text the code reads back (streak-count)
    ret                     \* what the last call returned / did

vars == <<localStorage, today, clock, currentCategory, currentEditingTaskId, dom, ret>>

-----------------------------------------------------------------------------
(* Bounds of the model *)

MaxTasks == 2          \* tasks in one day record
MaxDomainTotal == 160  \* a domain's accumulated activity XP
MaxDay == 1            \* day rollovers of the operation specification
MaxClock == 4          \* Date.now() ticks: the handler calls that write to the store
MaxRun == 31           \* longest qualifying run drawn for loadStreak
MaxStreakShown == 26    \* largest streak shown drawn for the breakthrough probability
MaxTier1Auditions == 51 \* largest tier-1 audition count drawn
MaxCallbacks == 8       \* largest callback count drawn
MaxRoles == 2           \* largest role count drawn
MaxIncrease == 2        \* largest increase of one count
MaxLog == 2             \* entries a log of the backup specification grows to
MaxCalls == 3          \* calls of the debounced function
MaxTime == 8           \* ticks of the debounce specification

(* Program constants *)

StreakThreshold == 160     \* XP a day needs to count
IntensityThreshold == 200  \* XP of an "intensity" day
StreakWalkDays == 30       \* loadStreak walks back at most 30 days
WindowDays == 7            \* getLast7DaysData
MinAlignmentChars == 30    \* saveAlignment
DateKeyLength == 16        \* clearOldData's test for "date keys"
RetentionMonths == 3       \* clearOldData
DebounceWait == 3      \* scripts.js:141, 300 ms in ticks of 100 ms

-----------------------------------------------------------------------------
(* Generic helpers *)

Min(a, b) == IF a <= b THEN a ELSE b
Max(a, b) == IF a >= b THEN a ELSE b

RECURSIVE SumSeq(_)
SumSeq(s) == IF s = <<>> THEN 0 ELSE Head(s) + SumSeq(Tail(s))

RECURSIVE SumSet(_, _)
\* Sum of f[x] over the finite set S
SumSet(f, S) ==
    IF S = {} THEN 0
    ELSE LET x == CHOOSE y \in S : TRUE IN f[x] + SumSet(f, S \ {x})

RemoveAt(s, i) == SubSeq(s, 1, i - 1) \o SubSeq(s, i + 1, Len(s))

\* All orders in which the finite set S can be enumerated
Orders(S) ==
    {o \in [1..Cardinality(S) -> S] : \A i, j \in 1..Cardinality(S) : o[i] = o[j] => i = j}

\* String.prototype.startsWith
StartsWith(s, p) == Len(s) >= Len(p) /\ SubSeq(s, 1, Len(p)) = p

RECURSIVE TrimLeft(_)
TrimLeft(s) == IF Len(s) > 0 /\ SubSeq(s, 1, 1) = " " THEN TrimLeft(SubSeq(s, 2, Len(s))) ELSE s
RECURSIVE TrimRight(_)
TrimRight(s) ==
    IF Len(s) > 0 /\ SubSeq(s, Len(s), Len(s)) = " " THEN TrimRight(SubSeq(s, 1, Len(s) - 1)) ELSE s
\* String.prototype.trim
Trim(s) == TrimRight(TrimLeft(s))

-----------------------------------------------------------------------------
(* Calendar: Date, toISOString().split('T')[0], new Date(dateStr) *)

MonthLengths == <<31, 28, 31, 30, 31, 30, 31, 31, 30, 31, 30, 31>>
DigitStr == <<"0", "1", "2", "3", "4", "5", "6", "7", "8", "9">>
Pad2(n) == DigitStr[(n \div 10) + 1] \o DigitStr[(n % 10) + 1]
Pad4(n) == Pad2(n \div 100) \o Pad2(n % 100)

\* The years the model's calendar covers, none of them a leap year
CalendarDays == (0 - 365)..729
YearOf(n) == 2026 + (n \div 365)

RECURSIVE MonthFrom(_, _)
\* <<month, day of month>> of the 0-based day `d` counted from the 1st of month m
MonthFrom(m, d) == IF d < MonthLengths[m] THEN <<m, d + 1>> ELSE MonthFrom(m + 1, d - MonthLengths[m])
MonthDay(n) == MonthFrom(1, n % 365)

RECURSIVE DaysBeforeMonth(_)
DaysBeforeMonth(m) == IF m = 1 THEN 0 ELSE DaysBeforeMonth(m - 1) + MonthLengths[m - 1]

\* Date(year, month, day).getTime() in days; month and day may overflow as setMonth lets them
DayNumber(y, m, d) ==
    LET mm == m - 1
        yy == y + (mm \div 12)
    IN (yy - 2026) * 365 + DaysBeforeMonth((mm % 12) + 1) + (d - 1)

\* date.toISOString().split('T')[0]
ToISODate(n) == Pad4(YearOf(n)) \o "-" \o Pad2(MonthDay(n)[1]) \o "-" \o Pad2(MonthDay(n)[2])

\* The unpadded form of a date, as in "2026-1-2"
UnpaddedDate(n) ==
    LET unpad(k) == IF k < 10 THEN DigitStr[k + 1] ELSE Pad2(k)
    IN Pad4(YearOf(n)) \o "-" \o unpad(MonthDay(n)[1]) \o "-" \o unpad(MonthDay(n)[2])

\* The number a string of decimal digits writes, -1 for any other string
RECURSIVE NumberOf(_)
NumberOf(s) ==
    IF Len(s) = 0 THEN 0 - 1
    ELSE LET last == SubSeq(s, Len(s), Len(s))
             rest == IF Len(s) = 1 THEN 0 ELSE NumberOf(SubSeq(s, 1, Len(s) - 1))
         IN IF rest >= 0 /\ \E i \in 1..10 : DigitStr[i] = last
            THEN 10 * rest + (CHOOSE i \in 1..10 : DigitStr[i] = last) - 1
            ELSE 0 - 1

\* new Date(dateStr): the day, or an Invalid Date.  The ISO form YYYY-MM-DD is
\* parsed by every engine; any other form is left to the engine, and `lenient`
\* says whether this one accepts a month or day written without padding.
ParseDate(s, lenient) ==
    LET dashes == {i \in 1..Len(s) : SubSeq(s, i, i) = "-"} IN
    IF Cardinality(dashes) # 2 THEN [valid |-> FALSE]
    ELSE LET p == CHOOSE i \in dashes : \A j \in dashes : i <= j
             q == CHOOSE i \in dashes : \A j \in dashes : i >= j
             y == NumberOf(SubSeq(s, 1, p - 1))
             m == NumberOf(SubSeq(s, p + 1, q - 1))
             d == NumberOf(SubSeq(s, q + 1, Len(s)))
             padded == q - p = 3 /\ Len(s) - q = 2
             short == q - p \in {2, 3} /\ Len(s) - q \in {1, 2}
         IN IF /\ p = 5
               /\ padded \/ (lenient /\ short)
               /\ y >= 0 /\ m \in 1..12
               /\ d >= 1 /\ d <= MonthLengths[m]
            THEN [valid |-> TRUE, day |-> DayNumber(y, m, d)]
            ELSE [valid |-> FALSE]

\* The key of a day's record, `mastery_${dateString}`
DayKey(n) == "mastery_" \o ToISODate(n)

-----------------------------------------------------------------------------
(* JS values and JSON *)

Undefined == [t |-> "undefined"]
Null == [t |-> "null"]
Bool(b) == [t |-> "boolean", b |-> b]
Num(n) == [t |-> "number", n |-> n]
Str(s) == [t |-> "string", s |-> s]
Obj(o) == [t |-> "object", o |-> o]
EmptyObject == Obj(<<>>)

\* typeof v
TypeOf(v) == IF v.t = "null" THEN "object" ELSE v.t

\* ToBoolean(v)
Truthy(v) ==
    CASE v.t = "undefined" -> FALSE
      [] v.t = "null" -> FALSE
      [] v.t = "boolean" -> v.b
      [] v.t = "number" -> v.n # 0
      [] v.t = "string" -> v.s # ""
      [] OTHER -> TRUE

HasField(v, f) == v.t = "object" /\ f \in DOMAIN v.o

\* JSON.stringify(value): the text, held as its parse tree.  The values the code
\* serialises hold no undefined, NaN, function or Date, which are what a text loses.
JSONStringify(v) == [json |-> v]

\* JSON.parse(text): the value, or a SyntaxError
JSONParse(item) ==
    IF "json" \in DOMAIN item THEN [ok |-> TRUE, v |-> item.json] ELSE [ok |-> FALSE]

\* obj[f] = v
SetField(o, f, v) == [g \in DOMAIN o \cup {f} |-> IF g = f THEN v ELSE o[g]]

-----------------------------------------------------------------------------
(* The Record Store: scripts.js:1-56 *)

\* localStorage.getItem(key): the item, or null
HasItem(store, key) == key \in DOMAIN store

\* localStorage.setItem(key, item) under the outcome the browser gives it:
\* "ok", or the name of the DOMException it throws
SetItem(store, key, item, outcome) ==
    IF outcome = "ok"
    THEN [threw |-> FALSE, store |-> [k \in DOMAIN store \cup {key} |-> IF k = key THEN item ELSE store[k]]]
    ELSE [threw |-> TRUE, name |-> outcome, store |-> store]

\* localStorage.removeItem(key)
RemoveItem(store, key) == [k \in DOMAIN store \ {key} |-> store[k]]

\* The validation without its third line: alignment is left as parsed
NormalizeRecordKeepingAlignment(o) ==
    LET o1 == IF "domains" \in DOMAIN o THEN o ELSE SetField(o, "domains", <<>>)
    IN IF "tasks" \in DOMAIN o1 THEN o1 ELSE SetField(o1, "tasks", <<>>)

\* scripts.js:9-13, the "basic validation" of a parsed object
NormalizeRecord(o) ==
    LET o1 == IF "domains" \in DOMAIN o THEN o ELSE SetField(o, "domains", <<>>)
        o2 == IF "tasks" \in DOMAIN o1 THEN o1 ELSE SetField(o1, "tasks", <<>>)
    IN IF "alignment" \in DOMAIN o2 /\ TypeOf(o2["alignment"]) = "boolean"
       THEN o2
       ELSE SetField(o2, "alignment", Bool(FALSE))

\* The try block with a null guard: a parsed null is returned like any other value
GetTryBodyReturningNull(store, key, fallback) ==
    IF ~HasItem(store, key) \/ store[key] = [raw |-> ""]
    THEN [threw |-> FALSE, value |-> fallback]
    ELSE LET p == JSONParse(store[key]) IN
         IF ~p.ok THEN [threw |-> TRUE]
         ELSE IF StartsWith(key, "mastery_") /\ TypeOf(p.v) = "object" /\ p.v.t # "null"
              THEN [threw |-> FALSE, value |-> Obj(NormalizeRecord(p.v.o))]
              ELSE [threw |-> FALSE, value |-> p.v]

\* scripts.js:4-14, the body of safeLocalStorageGet's try block: the value it
\* returns, or that it threw (JSON.parse's SyntaxError, or the TypeError of
\* reading a property of null)
GetTryBody(store, key, fallback) ==
    IF ~HasItem(store, key) \/ store[key] = [raw |-> ""]
    THEN [threw |-> FALSE, value |-> fallback]
    ELSE LET p == JSONParse(store[key]) IN
         IF ~p.ok THEN [threw |-> TRUE]
         ELSE IF StartsWith(key, "mastery_") /\ TypeOf(p.v) = "object"
              THEN IF p.v.t = "null"
                   THEN [threw |-> TRUE]
                   ELSE [threw |-> FALSE, value |-> Obj(NormalizeRecord(p.v.o))]
              ELSE [threw |-> FALSE, value |-> p.v]

\* scripts.js:2-20: what the call does, [raised, value]
SafeGetCall(store, key, fallback) ==
    LET body == GetTryBody(store, key, fallback) IN
    IF body.threw
    THEN [raised |-> FALSE, value |-> fallback]   \* catch (error) { return fallback; }
    ELSE [raised |-> FALSE, value |-> body.value]

safeLocalStorageGet(store, key, fallback) == SafeGetCall(store, key, fallback).value

\* scripts.js:43-44, cutoff.setMonth(cutoff.getMonth() - 3)
CutoffDay(now) == DayNumber(YearOf(now), MonthDay(now)[1] - RetentionMonths, MonthDay(now)[2])

\* `date < cutoff`: date is the midnight that starts its day, cutoff a later time of day
DateBefore(d, cutoffDay) == d <= cutoffDay

\* scripts.js:48-51, whether the loop removes `key`
SweepRemoves(key, now, lenient) ==
    /\ StartsWith(key, "mastery_")
    /\ Len(key) = DateKeyLength
    /\ LET date == ParseDate(SubSeq(key, Len("mastery_") + 1, Len(key)), lenient) IN
       date.valid /\ DateBefore(date.day, CutoffDay(now))

RECURSIVE ClearLoop(_, _, _, _, _)
\* scripts.js:46-55: the loop over the index i (1-based here); `order` is the
\* order localStorage.key enumerates the keys in, and a removal shifts the
\* keys after it down by one while i still advances
ClearLoop(store, order, i, now, lenient) ==
    IF i > Len(order) THEN store
    ELSE IF SweepRemoves(order[i], now, lenient)
         THEN ClearLoop(RemoveItem(store, order[i]), RemoveAt(order, i), i + 1, now, lenient)
         ELSE ClearLoop(store, order, i + 1, now, lenient)

\* scripts.js:42-56
clearOldData(store, order, now, lenient) == ClearLoop(store, order, 1, now, lenient)

\* The outcomes the browser can give one setItem call
SetOutcomes == {"ok", "QuotaExceededError", "SecurityError"}
\* ... and the retry, whose exception the code does not look at
RetryOutcomes == {"ok", "QuotaExceededError"}

\* The environment's choices for one safeLocalStorageSet call over a store whose
\* keys lie in `keys`: the outcome of the write, of the retry, the order in which
\* localStorage.key enumerates (rank lists `keys`; a store's keys come in that
\* order) and the engine's date parsing.  The last three only matter after a
\* QuotaExceededError, the parsing only to a key of the tested length.
SetEnvs(keys) ==
    {[first |-> f, retry |-> "ok", rank |-> CHOOSE o \in Orders(keys) : TRUE, lenient |-> FALSE] :
        f \in SetOutcomes \ {"QuotaExceededError"}}
    \cup
    [first : {"QuotaExceededError"}, retry : RetryOutcomes, rank : Orders(keys),
     lenient : IF \E k \in keys : Len(k) = DateKeyLength THEN BOOLEAN ELSE {FALSE}]

\* localStorage.key(0), localStorage.key(1), ...
KeyOrder(store, rank) == SelectSeq(rank, LAMBDA k : k \in DOMAIN store)

\* safeLocalStorageSet without the test of error.name: it sweeps and retries
\* after any failure
SafeSetCallOnAnyError(store, now, key, value, env) ==
    LET w1 == SetItem(store, key, JSONStringify(value), env.first) IN
    IF ~w1.threw
    THEN [store |-> w1.store, result |-> TRUE, raised |-> FALSE, sweeps |-> 0, writes |-> 1,
          swept |-> store]
    ELSE LET swept == clearOldData(store, KeyOrder(store, env.rank), now, env.lenient)
             w2 == SetItem(swept, key, JSONStringify(value), env.retry)
         IN [store |-> w2.store, result |-> ~w2.threw, raised |-> FALSE, sweeps |-> 1,
             writes |-> 2, swept |-> swept]

\* scripts.js:22-40: the store it leaves, what it returns, whether it raised, how
\* often it swept and wrote, and the store as the sweep left it
SafeSetCall(store, now, key, value, env) ==
    LET w1 == SetItem(store, key, JSONStringify(value), env.first) IN
    IF ~w1.threw
    THEN [store |-> w1.store, result |-> TRUE, raised |-> FALSE, sweeps |-> 0, writes |-> 1,
          swept |-> store]
    ELSE IF w1.name = "QuotaExceededError"
         THEN LET swept == clearOldData(store, KeyOrder(store, env.rank), now, env.lenient)
                  w2 == SetItem(swept, key, JSONStringify(value), env.retry)
              IN IF ~w2.threw
                 THEN [store |-> w2.store, result |-> TRUE, raised |-> FALSE, sweeps |-> 1,
                       writes |-> 2, swept |-> swept]
                 ELSE [store |-> swept, result |-> FALSE, raised |-> FALSE, sweeps |-> 1,
                       writes |-> 2, swept |-> swept]
         ELSE [store |-> store, result |-> FALSE, raised |-> FALSE, sweeps |-> 0, writes |-> 1,
               swept |-> store]

-----------------------------------------------------------------------------
(* Static configuration: scripts.js:453-486 *)

\* Object.keys(DOMAINS)
DomainNames == {"creation", "physical", "meditation", "recovery"}

\* DOMAINS[domain].target
DOMAINS == [d \in DomainNames |-> [target |-> 40]]

CreationCategories == {"act", "study", "create", "network", "reading", "writing", "voice"}
PhysicalCategories == {"marts", "cardio", "gym", "yoga", "dance", "stretch"}
MeditationCategories == {"meditation", "breathwork", "visualization", "mindfulness"}
RecoveryCategories == {"sleep", "nutrition", "recovery", "planning"}
SpecialCategories == {"scary", "critical"}
CategoryNames ==
    CreationCategories \cup PhysicalCategories \cup MeditationCategories
        \cup RecoveryCategories \cup SpecialCategories

\* TASK_CATEGORIES[category].domain
TASK_CATEGORIES ==
    [c \in CategoryNames |->
        [domain |-> CASE c \in CreationCategories -> "creation"
                      [] c \in PhysicalCategories -> "physical"
                      [] c \in MeditationCategories -> "meditation"
                      [] c \in RecoveryCategories -> "recovery"
                      [] OTHER -> "special"]]

-----------------------------------------------------------------------------
(* Reading a day record *)

\* getToday(): scripts.js:1864-1866
getToday(now) == ToISODate(now)

\* data.alignment
AlignmentOf(data) == IF HasField(data, "alignment") THEN data.o["alignment"] ELSE Undefined

\* data.totalXP || 0
TotalXPOrZero(data) == IF HasField(data, "totalXP") THEN data.o["totalXP"] ELSE 0

\* data.tasks, or [] where the code guards with `if (data.tasks)`
TasksOf(data) == IF HasField(data, "tasks") THEN data.o["tasks"] ELSE <<>>

\* data.domains, or {} where the code guards with `if (data.domains)`
DomainsOf(data) == IF HasField(data, "domains") THEN data.o["domains"] ELSE <<>>

\* Object.keys(data.domains).forEach(domain => sum += data.domains[domain].total)
DomainsXP(data) ==
    LET ds == DomainsOf(data) IN SumSet([d \in DOMAIN ds |-> ds[d].total], DOMAIN ds)

\* data.tasks.forEach(task => { if (task.completed) sum += task.xp })
CompletedTasksXP(data) ==
    LET ts == TasksOf(data) IN SumSeq([i \in 1..Len(ts) |-> IF ts[i].completed THEN ts[i].xp ELSE 0])

\* The XP a handler recomputes from a record: scripts.js:1360-1376 (saveAlignment),
\* 1259-1278 (updateDomainProgress), 1031-1040, 1409-1420, 1440-1451
RecomputedXP(data) == DomainsXP(data) + CompletedTasksXP(data)

\* scripts.js:1437-1452 (loadStreak), 1406-1421, 1028-1041 (updateStreakCalculator):
\* The cached totalXP wherever the field is present, zero included
CachedXPWhenPresent(data) ==
    IF HasField(data, "totalXP") THEN data.o["totalXP"] ELSE RecomputedXP(data)

\* `let xp = data.totalXP || 0; if (!data.totalXP) { xp = <recomputed> }`
CachedOrRecomputedXP(data) ==
    IF TotalXPOrZero(data) # 0 THEN TotalXPOrZero(data) ELSE RecomputedXP(data)

-----------------------------------------------------------------------------
(* loadStreak: scripts.js:1395-1479 *)

RECURSIVE StreakWalkSkipping(_, _, _, _)
\* The walk with `continue` in place of `break`: a failing day is skipped
StreakWalkSkipping(store, now, i, currentStreak) ==
    IF i > StreakWalkDays THEN currentStreak
    ELSE LET data == safeLocalStorageGet(store, DayKey(now - i), EmptyObject) IN
         IF Truthy(AlignmentOf(data)) /\ CachedOrRecomputedXP(data) >= StreakThreshold
         THEN StreakWalkSkipping(store, now, i + 1, currentStreak + 1)
         ELSE StreakWalkSkipping(store, now, i + 1, currentStreak)

RECURSIVE StreakWalk(_, _, _, _)
\* scripts.js:1430-1462, the loop `for (let i = 1; i <= 30; i++)`
StreakWalk(store, now, i, currentStreak) ==
    IF i > StreakWalkDays THEN currentStreak
    ELSE LET data == safeLocalStorageGet(store, DayKey(now - i), EmptyObject) IN
         IF Truthy(AlignmentOf(data))
         THEN IF CachedOrRecomputedXP(data) >= StreakThreshold
              THEN StreakWalk(store, now, i + 1, currentStreak + 1)
              ELSE currentStreak
         ELSE currentStreak

\* scripts.js:1395-1479: the streak it displays and whether today is complete
loadStreak(store, now) ==
    LET todayData == safeLocalStorageGet(store, DayKey(now), EmptyObject) IN
    [currentStreak |-> StreakWalk(store, now, 1, 0),
     todayComplete |-> Truthy(AlignmentOf(todayData))
                        /\ CachedOrRecomputedXP(todayData) >= StreakThreshold]

\* scripts.js:1024-1041: the XP updateStreakCalculator shows and the XP still needed
updateStreakCalculator(store, now) ==
    LET data == safeLocalStorageGet(store, DayKey(now), EmptyObject)
        currentXP == CachedOrRecomputedXP(data)
    IN [currentXP |-> currentXP, xpNeeded |-> Max(0, StreakThreshold - currentXP)]

-----------------------------------------------------------------------------
(* getLast7DaysData: scripts.js:248-283 *)

\* scripts.js:256-279, the entry of the day i days before now
WindowEntry(store, now, i) ==
    LET data == safeLocalStorageGet(store, DayKey(now - i), EmptyObject)
        ds == DomainsOf(data)
        \* data.domains?.[domain]?.total || 0
        domains == [d \in DomainNames |-> IF d \in DOMAIN ds THEN ds[d].total ELSE 0]
    IN [date |-> ToISODate(now - i),
        totalXP |-> SumSet(domains, DomainNames) + CompletedTasksXP(data),
        domains |-> domains,
        alignment |-> IF Truthy(AlignmentOf(data)) THEN AlignmentOf(data) ELSE Bool(FALSE)]

getLast7DaysData(store, now) == [k \in 1..WindowDays |-> WindowEntry(store, now, k - 1)]

-----------------------------------------------------------------------------
(* Exact fractions *)

RECURSIVE GCD(_, _)
GCD(a, b) == IF b = 0 THEN a ELSE GCD(b, a % b)

\* num/den in lowest terms, den > 0
Frac(num, den) ==
    LET g == GCD(IF num < 0 THEN 0 - num ELSE num, den) IN [num |-> num \div g, den |-> den \div g]
FracAdd(a, b) == Frac(a.num * b.den + b.num * a.den, a.den * b.den)
FracScale(k, a) == Frac(k * a.num, a.den)
FracLess(a, b) == a.num * b.den < b.num * a.den
FracLeq(a, b) == a.num * b.den <= b.num * a.den
\* Math.round: the nearest integer, a half rounding up
Round(a) == (2 * a.num + a.den) \div (2 * a.den)

-----------------------------------------------------------------------------
(* The momentum score: scripts.js:144-226 *)

SeqCount(days, P(_)) == Cardinality({i \in 1..Len(days) : P(days[i])})
TotalXPSum(days) == SumSeq([i \in 1..Len(days) |-> days[i].totalXP])

\* The consistency factor counting the days of 200 XP
calculateConsistencyScoreAt200(days) ==
    LET completedDays == SeqCount(days, LAMBDA day : day.totalXP >= IntensityThreshold)
    IN Frac(completedDays * 100, 7)

\* scripts.js:171-174
calculateConsistencyScore(days) ==
    LET completedDays == SeqCount(days, LAMBDA day : day.totalXP >= StreakThreshold)
    IN Frac(completedDays * 100, 7)

\* The growth factor without its Math.min(Math.max(..., 0), 100)
calculateGrowthScoreUnclamped(days) ==
    IF Len(days) < 2 THEN Frac(50, 1)
    ELSE LET recent == SubSeq(days, 1, 3)
             older == SubSeq(days, 4, Len(days))
             r == TotalXPSum(recent)
             o == TotalXPSum(older)
         IN IF o = 0
            THEN (IF r > 0 THEN Frac(100, 1) ELSE Frac(0, 1))
            ELSE Frac((r * Len(older) - o * Len(recent)) * 100 + 50 * Len(recent) * o,
                      Len(recent) * o)

\* scripts.js:176-189.  The window always holds 7 days, so `older` is not empty.
calculateGrowthScore(days) ==
    IF Len(days) < 2 THEN Frac(50, 1)
    ELSE LET recent == SubSeq(days, 1, 3)
             older == SubSeq(days, 4, Len(days))
             r == TotalXPSum(recent)
             o == TotalXPSum(older)
         IN IF o = 0                                     \* olderAvg === 0
            THEN (IF r > 0 THEN Frac(100, 1) ELSE Frac(0, 1))
            ELSE LET \* ((recentAvg - olderAvg) / olderAvg) * 100 + 50
                     g == Frac((r * Len(older) - o * Len(recent)) * 100
                                   + 50 * Len(recent) * o,
                               Len(recent) * o)
                 IN \* Math.min(Math.max(growth + 50, 0), 100)
                    IF FracLess(g, Frac(0, 1)) THEN Frac(0, 1)
                    ELSE IF FracLess(Frac(100, 1), g) THEN Frac(100, 1)
                    ELSE g

\* scripts.js:191-204
calculateBalanceScore(days) ==
    LET domainTotal == [d \in DomainNames |-> SumSeq([i \in 1..Len(days) |-> days[i].domains[d]])]
        min == CHOOSE x \in {domainTotal[d] : d \in DomainNames} :
                   \A d \in DomainNames : x <= domainTotal[d]
        max == CHOOSE x \in {domainTotal[d] : d \in DomainNames} :
                   \A d \in DomainNames : x >= domainTotal[d]
    IN IF max = 0 THEN Frac(0, 1) ELSE Frac(min * 100, max)

\* scripts.js:206-209
calculateIntensityScore(days) ==
    LET intensityDays == SeqCount(days, LAMBDA day : day.totalXP >= IntensityThreshold)
    IN Frac(intensityDays * 100, 7)

\* scripts.js:223-226, as a fraction
calculateMomentumScoreForPeriod(periodDays) ==
    IF Len(periodDays) = 0 THEN Frac(0, 1) ELSE Frac(TotalXPSum(periodDays), Len(periodDays))

\* getMomentumTrend comparing the score with the average of days[3:6]
getMomentumTrendAgainstPrevious(days, currentScore) ==
    IF Len(days) < 4 THEN "starting"
    ELSE LET previousScore == calculateMomentumScoreForPeriod(SubSeq(days, 4, 6))
             cur == Frac(currentScore, 1)
         IN IF FracLess(FracAdd(previousScore, Frac(10, 1)), cur) THEN "accelerating"
            ELSE IF FracLess(FracAdd(previousScore, Frac(5, 1)), cur) THEN "growing"
            ELSE IF FracLeq(FracAdd(previousScore, Frac(0 - 5, 1)), cur) THEN "steady"
            ELSE "declining"

\* scripts.js:211-221
getMomentumTrend(days, currentScore) ==
    IF Len(days) < 4 THEN "starting"
    ELSE LET recentScore == calculateMomentumScoreForPeriod(SubSeq(days, 1, 3))
             cur == Frac(currentScore, 1)
         IN IF FracLess(FracAdd(recentScore, Frac(10, 1)), cur) THEN "accelerating"
            ELSE IF FracLess(FracAdd(recentScore, Frac(5, 1)), cur) THEN "growing"
            ELSE IF FracLeq(FracAdd(recentScore, Frac(0 - 5, 1)), cur) THEN "steady"
            ELSE "declining"

\* scripts.js:157-162: Math.round(c * 0.4 + g * 0.3 + b * 0.2 + i * 0.1)
WeightedScore(factors) ==
    LET sum == FracAdd(FracAdd(FracScale(4, factors.consistency), FracScale(3, factors.growth)),
                       FracAdd(FracScale(2, factors.balance), FracScale(1, factors.intensity)))
    IN Round(Frac(sum.num, 10 * sum.den))

\* scripts.js:149-154
MomentumFactors(last7Days) ==
    [consistency |-> calculateConsistencyScore(last7Days),
     growth |-> calculateGrowthScore(last7Days),
     balance |-> calculateBalanceScore(last7Days),
     intensity |-> calculateIntensityScore(last7Days)]

\* scripts.js:228-246
generateMomentumRecommendation(score, trend, factors) ==
    IF score >= 90
    THEN "Elite momentum! Maintain this intensity and focus on breakthrough opportunities."
    ELSE IF score >= 75
    THEN "Strong momentum! Increase intensity slightly for breakthrough acceleration."
    ELSE IF score >= 60
    THEN (IF FracLess(factors.consistency, Frac(80, 1))
          THEN "Good progress! Focus on daily consistency to build unstoppable momentum."
          ELSE IF FracLess(factors.growth, Frac(60, 1))
          THEN "Consistent but stagnant. Add 10% more intensity to each domain."
          ELSE "Solid foundation! Now push one domain to mastery level each day.")
    ELSE IF score >= 40
    THEN "Building foundation. Focus on hitting daily minimums consistently."
    ELSE "Initial phase. Start with one domain at a time and build consistency."

\* `body` on the value of `v`, evaluated once
Once(v, body(_)) == CHOOSE r \in {body(x) : x \in {v}} : TRUE

\* scripts.js:144-169
calculateMomentumScore(store, now) ==
    Once(getLast7DaysData(store, now), LAMBDA last7Days :
        IF Len(last7Days) = 0
        THEN [score |-> 0, trend |-> "starting",
              recommendation |-> "Begin your journey with consistent daily effort."]
        ELSE Once(MomentumFactors(last7Days), LAMBDA factors :
                 Once(WeightedScore(factors), LAMBDA score :
                     Once(getMomentumTrend(last7Days, score), LAMBDA trend :
                         [score |-> score, trend |-> trend,
                          recommendation |-> generateMomentumRecommendation(score, trend, factors),
                          factors |-> factors]))))

-----------------------------------------------------------------------------
(* Weak-domain detection: scripts.js:378-400 *)

\* Object.keys(DOMAINS), in insertion order: scripts.js:454-459
DomainOrder == <<"creation", "physical", "meditation", "recovery">>

\* domain.charAt(0).toUpperCase() + domain.slice(1): scripts.js:390
Capitalize(domain) ==
    CASE domain = "creation" -> "Creation"
      [] domain = "physical" -> "Physical"
      [] domain = "meditation" -> "Meditation"
      [] OTHER -> "Recovery"

\* The test of a weak domain including the threshold itself
IsWeakAtOrBelow(average, target) == FracLeq(average, Frac(target * 7, 10))

\* scripts.js:388: domainAverages[domain] < DOMAINS[domain].target * 0.7.  The
\* totals are integers and 40 * 0.7 is the double 28, so the comparison of the
\* doubles is the comparison of the exact values.
IsWeak(average, target) == FracLess(average, Frac(target * 7, 10))

\* scripts.js:378-400; the icon of an entry, a display glyph, is left out
findWeakDomains(store, now) ==
    LET last7Days == getLast7DaysData(store, now)
        domainAverages ==
            [d \in DomainNames |->
                Frac(SumSeq([i \in 1..Len(last7Days) |-> last7Days[i].domains[d]]),
                     Len(last7Days))]
        weak == SelectSeq(DomainOrder, LAMBDA d : IsWeak(domainAverages[d], DOMAINS[d].target))
    IN [k \in 1..Len(weak) |->
           [name |-> Capitalize(weak[k]), target |-> DOMAINS[weak[k]].target,
            current |-> domainAverages[weak[k]]]]

-----------------------------------------------------------------------------
(* The breakthrough probability: scripts.js:552-578.  The four counts are   *)
(* the numbers shown in the page (parseInt(textContent) || 0 of a count the *)
(* program wrote there).  The products are multiples of 1/5, so no sum lies *)
(* within rounding error of a half and Math.round on the doubles is         *)
(* Math.round on the exact values.                                          *)

FracMin(a, b) == IF FracLess(b, a) THEN b ELSE a

\* The probability without its ceiling of 95
calculateHollywoodProbabilityUncapped(streak, tier1Auditions, callbacks, roles) ==
    LET consistencyScore == FracMin(Frac(streak * 8, 10), Frac(20, 1))
        opportunitiesScore == FracMin(Frac(tier1Auditions * 6, 10), Frac(30, 1))
        callbacksScore == FracMin(Frac(callbacks * 4, 1), Frac(30, 1))
        bookingsScore == FracMin(Frac(roles * 20, 1), Frac(20, 1))
        totalProbability ==
            FracAdd(FracAdd(consistencyScore, opportunitiesScore),
                    FracAdd(callbacksScore, bookingsScore))
    IN [total |-> Round(totalProbability),
        breakdown |-> [consistency |-> Round(consistencyScore),
                       opportunities |-> Round(opportunitiesScore),
                       callbacks |-> Round(callbacksScore),
                       bookings |-> Round(bookingsScore)]]

\* The probability with a callbacks share that starts again from 0 past its cap
calculateHollywoodProbabilityWrapping(streak, tier1Auditions, callbacks, roles) ==
    LET consistencyScore == FracMin(Frac(streak * 8, 10), Frac(20, 1))
        opportunitiesScore == FracMin(Frac(tier1Auditions * 6, 10), Frac(30, 1))
        callbacksScore == Frac((callbacks * 4) % 30, 1)
        bookingsScore == FracMin(Frac(roles * 20, 1), Frac(20, 1))
        totalProbability ==
            FracMin(FracAdd(FracAdd(consistencyScore, opportunitiesScore),
                            FracAdd(callbacksScore, bookingsScore)),
                    Frac(95, 1))
    IN [total |-> Round(totalProbability),
        breakdown |-> [consistency |-> Round(consistencyScore),
                       opportunities |-> Round(opportunitiesScore),
                       callbacks |-> Round(callbacksScore),
                       bookings |-> Round(bookingsScore)]]

\* scripts.js:552-578
calculateHollywoodProbability(streak, tier1Auditions, callbacks, roles) ==
    LET consistencyScore == FracMin(Frac(streak * 8, 10), Frac(20, 1))           \* 559
        opportunitiesScore == FracMin(Frac(tier1Auditions * 6, 10), Frac(30, 1)) \* 560
        callbacksScore == FracMin(Frac(callbacks * 4, 1), Frac(30, 1))           \* 561
        bookingsScore == FracMin(Frac(roles * 20, 1), Frac(20, 1))               \* 562
        totalProbability ==                                                      \* 564-567
            FracMin(FracAdd(FracAdd(consistencyScore, opportunitiesScore),
                            FracAdd(callbacksScore, bookingsScore)),
                    Frac(95, 1))
    IN [total |-> Round(totalProbability),
        breakdown |-> [consistency |-> Round(consistencyScore),
                       opportunities |-> Round(opportunitiesScore),
                       callbacks |-> Round(callbacksScore),
                       bookings |-> Round(bookingsScore)]]

-----------------------------------------------------------------------------
(* The store across the reads of the metrics computations *)

\* A read that stores the fallback under a key it did not find
StoreAfterGetKeepingFallback(store, key, fallback) ==
    IF HasItem(store, key) THEN store ELSE SetItem(store, key, JSONStringify(fallback), "ok").store

\* scripts.js:2-20: the store after safeLocalStorageGet(key, fallback).  The call
\* is getItem and JSON.parse only: the fields it adds to a parsed record and the
\* fallback it returns stay in memory.
StoreAfterGet(store, key, fallback) == store

RECURSIVE StoreAfterReads(_, _, _, _)
\* The store after the reads of the records of the days i, ..., last before now
\* (scripts.js:252-256, 1401-1402, 1430-1434)
StoreAfterReads(store, now, i, last) ==
    IF i > last THEN store
    ELSE StoreAfterReads(StoreAfterGet(store, DayKey(now - i), EmptyObject), now, i + 1, last)

-----------------------------------------------------------------------------
(* The industry and metric logs and the backup: scripts.js:651-689,         *)
(* 1563-1597, 704-745.  These handlers call localStorage directly: an       *)
(* exception of setItem or JSON.parse ends the handler where it is raised.  *)

\* A JSON array
Arr(a) == [t |-> "array", a |-> a]

\* new Date().toISOString().slice(0, 7): scripts.js:675, 1582
MonthOf(now) == SubSeq(ToISODate(now), 1, 7)

\* scripts.js:656-660
InteractionTypes ==
    [n \in {"1", "2", "3"} |->
        CASE n = "1" -> [key |-> "events", name |-> "Industry Event"]
          [] n = "2" -> [key |-> "followups", name |-> "Strategic Follow-up"]
          [] OTHER -> [key |-> "contacts", name |-> "New Quality Contact"]]

\* JSON.parse(localStorage.getItem(key) || '[]') and the array it must be for
\* push: scripts.js:677, 1584
ParseLog(store, key) ==
    IF ~HasItem(store, key) \/ store[key] = [raw |-> ""]
    THEN [ok |-> TRUE, list |-> <<>>]
    ELSE LET p == JSONParse(store[key]) IN
         IF p.ok /\ p.v.t = "array" THEN [ok |-> TRUE, list |-> p.v.a] ELSE [ok |-> FALSE]

\* scripts.js:651-689; an answer "" stands for a cancelled prompt too (both are
\* falsy); `outcome` is what the browser makes of the setItem
logIndustryInteraction(store, now, interactionType, details, outcome) ==
    IF interactionType = "" THEN store
    ELSE IF interactionType \notin DOMAIN InteractionTypes THEN store
    ELSE IF details = "" \/ Len(details) < 5 THEN store
    ELSE LET type == InteractionTypes[interactionType]
             key == "industry_" \o type.key \o "_" \o MonthOf(now)
             interactions == ParseLog(store, key)
         IN IF ~interactions.ok THEN store
            ELSE LET entry == [type |-> type.name, details |-> Trim(details)]
                 IN SetItem(store, key, JSONStringify(Arr(Append(interactions.list, entry))),
                            outcome).store

\* scripts.js:1563-1597: the store, and the count shown in the page if the
\* handler gets that far
incrementMetric(store, now, metricId, detail, outcome1, outcome2) ==
    IF detail = "" \/ Len(Trim(detail)) < 5 THEN [store |-> store, shown |-> FALSE]
    ELSE LET month == MonthOf(now)
             historyKey == metricId \o "_history_" \o month
             history == ParseLog(store, historyKey)
         IN IF ~history.ok THEN [store |-> store, shown |-> FALSE]
            ELSE LET entry == [date |-> getToday(now), project |-> Trim(detail)]
                     list == Append(history.list, entry)
                     w1 == SetItem(store, historyKey, JSONStringify(Arr(list)), outcome1)
                     \* history.length.toString(), the text of a JSON number
                     w2 == SetItem(w1.store, "mastery_" \o metricId \o "_" \o month,
                                   JSONStringify(Num(Len(list))), outcome2)
                 IN IF w1.threw THEN [store |-> store, shown |-> FALSE]
                    ELSE IF w2.threw THEN [store |-> w1.store, shown |-> FALSE]
                    ELSE [store |-> w2.store, shown |-> TRUE, count |-> Len(list)]

\* scripts.js:710-715: the keys backupEntireSystem copies
InBackup(key) ==
    \/ StartsWith(key, "mastery_")
    \/ StartsWith(key, "industry_")
    \/ key = "current_intensity"
    \/ key = "mastery_goal_path"
    \/ key = "mastery_runway_savings"
    \/ key = "mastery_runway_expenses"

\* scripts.js:704-745: the object downloaded (its entries and its _metadata) and
\* the store after localStorage.setItem('last_backup_time', ...).  The object
\* literal of _metadata is evaluated before the property is created, when
\* Object.keys(backup) are the copied keys.
backupEntireSystem(store, now, outcome) ==
    LET keys == {k \in DOMAIN store : InBackup(k)}
    IN [entries |-> [k \in keys |-> store[k]],
        metadata |-> [version |-> "2.0", backupDate |-> ToISODate(now),
                      totalEntries |-> Cardinality(keys) - 1,
                      system |-> "Hollywood Mastery Destiny Protocol"],
        store |-> SetItem(store, "last_backup_time", [raw |-> ToISODate(now)], outcome).store]


\* scripts.js:732: JSON.stringify(backup, null, 2), the text of the downloaded
\* file.  Every copied value is the string getItem returned.
BackupFile(entries, metadata) ==
    JSONStringify(Obj([k \in DOMAIN entries \cup {"_metadata"} |->
                          IF k = "_metadata" THEN metadata ELSE Str(entries[k])]))

\* The test of line 759 without the comparison of `system`
BackupRejectedWithoutMetadata(backup) ==
    \/ ~HasField(backup, "_metadata")
    \/ "system" \notin DOMAIN backup.o["_metadata"]

\* scripts.js:759: !backup._metadata || backup._metadata.system !== '...'
BackupRejected(backup) ==
    \/ ~HasField(backup, "_metadata")
    \/ "system" \notin DOMAIN backup.o["_metadata"]
    \/ backup.o["_metadata"].system # "Hollywood Mastery Destiny Protocol"

\* The test of the clearing loop when it takes every key
RestoreClearsAnyKey(key) == TRUE

\* scripts.js:768-773: the keys the clearing loop removes
RestoreClears(key) ==
    \/ StartsWith(key, "mastery_")
    \/ StartsWith(key, "industry_")
    \/ key = "current_intensity"
    \/ key = "mastery_goal_path"
    \/ key = "mastery_runway_savings"
    \/ key = "mastery_runway_expenses"

RECURSIVE RestoreClearLoop(_, _, _)
\* scripts.js:766-776: the loop over the index i (1-based here); `order` is the
\* order localStorage.key enumerates the keys in, and a removal shifts the
\* keys after it down by one while i still advances
RestoreClearLoop(store, order, i) ==
    IF i > Len(order) THEN store
    ELSE IF RestoreClears(order[i])
         THEN RestoreClearLoop(RemoveItem(store, order[i]), RemoveAt(order, i), i + 1)
         ELSE RestoreClearLoop(store, order, i + 1)

RECURSIVE RestoreWriteLoop(_, _, _, _, _)
\* scripts.js:779-783: Object.keys(backup).forEach; `keys` are the keys other
\* than _metadata in the order of Object.keys, and the write number `failAt`
\* throws (0: none does), which ends the handler in its catch
RestoreWriteLoop(store, backup, keys, i, failAt) ==
    IF i > Len(keys) THEN [store |-> store, threw |-> FALSE]
    ELSE IF i = failAt THEN [store |-> store, threw |-> TRUE]
    ELSE RestoreWriteLoop(SetItem(store, keys[i], backup.o[keys[i]].s, "ok").store,
                          backup, keys, i + 1, failAt)

\* scripts.js:747-797, reader.onload: the store it leaves and the alert it
\* shows.  `text` is the file's content, `confirmed` the answer to confirm(),
\* `rank` the order localStorage.key enumerates in, `keys` and `failAt` as in
\* the write loop.
restoreSystemBackup(store, text, confirmed, rank, keys, failAt) ==
    LET p == JSONParse(text) IN
    IF ~p.ok THEN [store |-> store, alert |-> "error", cleared |-> store]
    ELSE IF p.v.t = "null" THEN [store |-> store, alert |-> "error", cleared |-> store]
    ELSE IF BackupRejected(p.v) THEN [store |-> store, alert |-> "invalid", cleared |-> store]
    ELSE IF ~confirmed THEN [store |-> store, alert |-> "none", cleared |-> store]
    ELSE LET cleared == RestoreClearLoop(store, KeyOrder(store, rank), 1)
             written == RestoreWriteLoop(cleared, p.v, keys, 1, failAt)
         IN [store |-> written.store,
             alert |-> IF written.threw THEN "error" ELSE "complete",
             cleared |-> cleared]

-----------------------------------------------------------------------------
(* Startup: scripts.js:808-849, 1868-1873 *)

\* new Date().getDay(), 0 for Sunday; 2026-01-01 is a Thursday
DayOfWeek(n) == (n + 4) % 7

\* scripts.js:1868-1873: the Monday of the week, as a day number
getWeekStart(now) ==
    LET day == DayOfWeek(now) IN now - day + (IF day = 0 THEN 0 - 6 ELSE 1)

\* JSON.parse(localStorage.getItem(key) || fallback) followed by the reading
\* of a property of the result: whether it raises (a SyntaxError for a text
\* that is no JSON, a TypeError for the JSON null)
ParseRaises(store, key) ==
    /\ HasItem(store, key)
    /\ store[key] # [raw |-> ""]
    /\ LET p == JSONParse(store[key]) IN ~p.ok \/ p.v.t = "null"

\* scripts.js:825-844: the calls of initializeApp in order, each with the keys
\* it reads through safeLocalStorageGet and the keys it hands to JSON.parse
\* itself.  loadRunway, loadTodaysGoal, setIntensity and loadBackupStatus use
\* the stored text as it is.
InitSteps(now) ==
    LET day == {DayKey(now)}
        month == MonthOf(now)
    IN << [name |-> "setupNavigation", safe |-> {}, parsed |-> {}],
          [name |-> "setupTaskSystem", safe |-> {}, parsed |-> {}],
          [name |-> "loadTodayData", safe |-> day, parsed |-> {}],
          [name |-> "loadStreak", safe |-> {DayKey(now - i) : i \in 0..StreakWalkDays},
           parsed |-> {}],
          [name |-> "loadMetrics", safe |-> {},
           parsed |-> {m \o "_history_" \o month :
                          m \in {"tier1-auditions", "tier2-auditions", "callbacks-count",
                                 "roles-count"}}],
          [name |-> "loadGoalPath", safe |-> {}, parsed |-> {"mastery_goal_path"}],
          [name |-> "loadRunway", safe |-> {}, parsed |-> {}],
          [name |-> "updateDomainProgress", safe |-> day, parsed |-> {}],
          [name |-> "loadTodaysGoal", safe |-> {}, parsed |-> {}],
          [name |-> "updateStreakCalculator", safe |-> day, parsed |-> {}],
          [name |-> "updateStreakUrgency", safe |-> day, parsed |-> {}],
          [name |-> "loadWeekHeatmap",
           safe |-> {DayKey(now - DayOfWeek(now) + i) : i \in 0..6}, parsed |-> {}],
          [name |-> "initializeEnhancedSystems", safe |-> {},
           parsed |-> {"industry_relationships"} \cup
                      {"industry_" \o InteractionTypes[n].key \o "_" \o month :
                          n \in DOMAIN InteractionTypes}],
          [name |-> "loadWeeklyReview", safe |-> {},
           parsed |-> {"mastery_review_" \o ToISODate(getWeekStart(now)), "mastery_goal_path"}],
          [name |-> "loadBackupStatus", safe |-> {}, parsed |-> {}],
          [name |-> "updateMomentumDisplay",
           safe |-> {DayKey(now - i) : i \in 0..WindowDays - 1}, parsed |-> {}] >>

\* Whether a call of initializeApp raises over the store
StepRaises(store, step) ==
    \/ \E key \in step.safe : SafeGetCall(store, key, EmptyObject).raised
    \/ \E key \in step.parsed : ParseRaises(store, key)

RECURSIVE InitFrom(_, _, _)
InitFrom(store, steps, i) ==
    IF i > Len(steps) THEN [completed |-> Len(steps), raised |-> FALSE]
    ELSE IF StepRaises(store, steps[i]) THEN [completed |-> i - 1, raised |-> TRUE]
    ELSE InitFrom(store, steps, i + 1)

\* scripts.js:824-849: how many of its calls complete, and whether one raised
\* (nothing catches it: the later calls, and the timers set after
\* initializeApp at lines 1877-1880, are then never reached)
initializeApp(store, now) == InitFrom(store, InitSteps(now), 1)

-----------------------------------------------------------------------------
(* debounce: scripts.js:126-141.  Time is counted in ticks of 100 ms; the    *)
(* callback of a timer runs at the tick the timer is due, before any call   *)
(* made at that tick (the timer task was queued first).                     *)

\* The timer debounce holds in `timeout`, with the arguments its `later` closes over
NoTimer == [armed |-> FALSE]

\* scripts.js:128-135, executedFunction(...args) called at time `now` as the
\* call number `call`: clearTimeout(timeout), then timeout = setTimeout(later, wait)
\* with the timer left armed from the call before
executedFunctionKeepingTimer(timer, now, wait, args, call) ==
    IF timer.armed THEN timer
    ELSE [armed |-> TRUE, due |-> now + wait, args |-> args, call |-> call]

\* scripts.js:128-135, executedFunction(...args) called at time `now` as the
\* call number `call`: clearTimeout(timeout), then timeout = setTimeout(later, wait)
executedFunction(timer, now, wait, args, call) ==
    [armed |-> TRUE, due |-> now + wait, args |-> args, call |-> call]

\* scripts.js:129-132, later(): clearTimeout(timeout); func.apply(this, args).
\* The timer it leaves and the arguments func is applied to.
later(timer) == [timer |-> NoTimer, args |-> timer.args]

-----------------------------------------------------------------------------
(* The daily-record handlers: scripts.js:889-993, 1126-1172, 1247-1320, 1348-1393 *)

safeLocalStorageSet(store, now, key, value, env) == SafeSetCall(store, now, key, value, env).store

\* data.tasks.find(t => t.id === taskId): its index, 0 when there is none
FindTask(tasks, taskId) ==
    IF \E i \in 1..Len(tasks) : tasks[i].id = taskId
    THEN CHOOSE i \in 1..Len(tasks) : tasks[i].id = taskId /\ \A j \in 1..(i - 1) : tasks[j].id # taskId
    ELSE 0

RECURSIVE FilterOut(_, _)
\* data.tasks.filter(t => t.id !== taskId)
FilterOut(tasks, taskId) ==
    IF tasks = <<>> THEN <<>>
    ELSE IF Head(tasks).id = taskId THEN FilterOut(Tail(tasks), taskId)
    ELSE <<Head(tasks)>> \o FilterOut(Tail(tasks), taskId)

\* updateDomainProgress caching the domain totals alone
updateDomainProgressOfDomains(store, now, env) ==
    LET data == safeLocalStorageGet(store, DayKey(now), EmptyObject) IN
    IF Truthy(AlignmentOf(data))
    THEN safeLocalStorageSet(store, now, DayKey(now),
                             Obj(SetField(data.o, "totalXP", DomainsXP(data))), env)
    ELSE store

\* scripts.js:1247-1320: the store after updateDomainProgress (its DOM updates left out)
updateDomainProgress(store, now, env) ==
    LET data == safeLocalStorageGet(store, DayKey(now), EmptyObject)
        totalXP == RecomputedXP(data)
    IN IF Truthy(AlignmentOf(data))
       THEN safeLocalStorageSet(store, now, DayKey(now), Obj(SetField(data.o, "totalXP", totalXP)), env)
       ELSE store

\* scripts.js:893: `if (!taskText)` on the trimmed text
TaskTextRejected(taskText) == taskText = ""

\* The checks of saveTaskEdit without the check of the XP
TaskEditRejectedOnEmptyText(taskText, xpValue) == taskText = ""

\* scripts.js:1145-1153: `if (!taskText)` and `if (xpValue <= 0)`
TaskEditRejected(taskText, xpValue) == taskText = "" \/ xpValue <= 0

\* The check of the reason passing 29 characters
AlignmentReasonRejectedBelow29(reason) == reason = "" \/ Len(reason) < MinAlignmentChars - 1

\* scripts.js:1351: `if (!reason || reason.length < 30)` on the trimmed reason
AlignmentReasonRejected(reason) == reason = "" \/ Len(reason) < MinAlignmentChars

\* addTask keyed by the day before, as a local date taken for the UTC date is
addTaskOfDayBefore(store, now, id, taskText, category, xpValue, e1, e2) ==
    LET data == safeLocalStorageGet(store, DayKey(now - 1), EmptyObject)
        task == [id |-> id, text |-> taskText, category |-> category,
                 xp |-> xpValue, completed |-> FALSE]
        data1 == Obj(SetField(data.o, "tasks", Append(TasksOf(data), task)))
    IN updateDomainProgress(safeLocalStorageSet(store, now, DayKey(now - 1), data1, e1), now, e2)

\* scripts.js:899-918: addTask once the text is accepted
addTask(store, now, id, taskText, category, xpValue, e1, e2) ==
    LET data == safeLocalStorageGet(store, DayKey(now), EmptyObject)
        task == [id |-> id, text |-> taskText, category |-> category,
                 xp |-> xpValue, completed |-> FALSE]
        data1 == Obj(SetField(data.o, "tasks", Append(TasksOf(data), task)))
    IN updateDomainProgress(safeLocalStorageSet(store, now, DayKey(now), data1, e1), now, e2)

\* scripts.js:922-944
toggleTask(store, now, taskId, e1, e2) ==
    LET data == safeLocalStorageGet(store, DayKey(now), EmptyObject)
        i == FindTask(TasksOf(data), taskId)
    IN IF HasField(data, "tasks") /\ i # 0
       THEN LET tasks == [TasksOf(data) EXCEPT ![i].completed = ~@]
                data1 == Obj(SetField(data.o, "tasks", tasks))
            IN updateDomainProgress(safeLocalStorageSet(store, now, DayKey(now), data1, e1), now, e2)
       ELSE store

\* scripts.js:1128-1136: deleteTask once confirmed
deleteTask(store, now, taskId, e1, e2) ==
    LET data == safeLocalStorageGet(store, DayKey(now), EmptyObject) IN
    IF HasField(data, "tasks")
    THEN LET data1 == Obj(SetField(data.o, "tasks", FilterOut(TasksOf(data), taskId)))
         IN updateDomainProgress(safeLocalStorageSet(store, now, DayKey(now), data1, e1), now, e2)
    ELSE store

\* scripts.js:1155-1171: saveTaskEdit once text and XP are accepted; [store, saved]
saveTaskEdit(store, now, editingId, taskText, xpValue, category, e1, e2) ==
    LET data == safeLocalStorageGet(store, DayKey(now), EmptyObject)
        i == FindTask(TasksOf(data), editingId)
    IN IF HasField(data, "tasks") /\ editingId # 0 /\ i # 0
       THEN LET tasks == [TasksOf(data) EXCEPT ![i].text = taskText, ![i].xp = xpValue,
                                               ![i].category = category]
                data1 == Obj(SetField(data.o, "tasks", tasks))
            IN [store |-> updateDomainProgress(
                              safeLocalStorageSet(store, now, DayKey(now), data1, e1), now, e2),
                saved |-> TRUE]
       ELSE [store |-> store, saved |-> FALSE]

\* scripts.js:946-971 (quick = TRUE, category = domain) and 973-993 (addDomainActivity)
addDomainXP(store, now, domain, category, xp, quick, e1, e2) ==
    LET data == safeLocalStorageGet(store, DayKey(now), EmptyObject)
        ds == DomainsOf(data)
        old == IF domain \in DOMAIN ds THEN ds[domain] ELSE [total |-> 0, activities |-> <<>>]
        new == [total |-> old.total + xp,
                activities |-> Append(old.activities, [category |-> category, xp |-> xp, quick |-> quick])]
        data1 == Obj(SetField(data.o, "domains", SetField(ds, domain, new)))
    IN updateDomainProgress(safeLocalStorageSet(store, now, DayKey(now), data1, e1), now, e2)

\* scripts.js:1357-1389: saveAlignment once the reason is accepted; [store, saved]
saveAlignment(store, now, reason, e1) ==
    LET data == safeLocalStorageGet(store, DayKey(now), EmptyObject)
        totalXP == RecomputedXP(data)
    IN IF totalXP < StreakThreshold
       THEN [store |-> store, saved |-> FALSE]
       ELSE LET o1 == SetField(data.o, "alignment", Bool(TRUE))
                o2 == SetField(o1, "alignmentReason", reason)
                o3 == SetField(o2, "totalXP", totalXP)
            IN [store |-> safeLocalStorageSet(store, now, DayKey(now), Obj(o3), e1), saved |-> TRUE]

-----------------------------------------------------------------------------
(* Inputs of the operation specification *)

TaskTexts == {"", "  ", " Read sides "}          \* #task-input, #edit-task-text
TaskXPInputs == {160}                            \* data-xp of a domain category's button
EditXPInputs == {0 - 5, 0, 5}                     \* #edit-task-xp
CategoryInputs == {"act"}                        \* the category buttons
EditCategoryInputs == {"scary"}                  \* #edit-task-category
DomainInputs == {"creation"}                     \* the domain of a quick-XP / activity button
ActivityXP == 160                                \* the XP such a button adds
AlignmentReasons ==                              \* #alignment-reason
    {"", "felt aligned today", "  Booked the pilot; sent a tape  ",
     " Booked the pilot; sent 2 tapes "}
TaskIds == 1..MaxClock                           \* the ids a rendered task row can carry

DomInit == [streakCount |-> 0]

\* data-xp of the active category button (index.html): the fixed XP of the two
\* special categories (scripts.js:484-485, 540), the button's own value otherwise;
\* scripts.js:892 takes 5 when no button is active
ButtonXP(category, xpInput) ==
    CASE category = "scary" -> 10
      [] category = "critical" -> 5
      [] OTHER -> xpInput

-----------------------------------------------------------------------------
(* The operation specification: the handlers, from a fresh install *)

Init ==
    /\ localStorage = <<>>
    /\ today = 0
    /\ clock = 1
    /\ currentCategory = "critical"
    /\ currentEditingTaskId = 0
    /\ dom = DomInit
    /\ ret = [op |-> "init"]

\* The keys a handler running today can find in the store
KeysNow == DOMAIN localStorage \cup {DayKey(today)}

TodayData(store) == safeLocalStorageGet(store, DayKey(today), EmptyObject)

\* The choices of the write updateDomainProgress makes, which it makes only for an
\* aligned day
UpdateEnvs(data) ==
    IF Truthy(AlignmentOf(data)) THEN SetEnvs(KeysNow)
    ELSE {CHOOSE e \in SetEnvs(KeysNow) : e.first = "ok"}

\* scripts.js:875-879, a click on a category button
SelectCategory ==
    \E c \in CategoryInputs :
        /\ currentCategory' = c
        /\ ret' = ret
        /\ UNCHANGED <<localStorage, today, clock, currentEditingTaskId, dom>>

\* scripts.js:889-920
AddTask ==
    \E text \in TaskTexts :
        LET taskText == Trim(text) IN
        IF TaskTextRejected(taskText)
        THEN /\ ret' = ret
             /\ UNCHANGED <<localStorage, today, clock, currentCategory, currentEditingTaskId, dom>>
        ELSE /\ clock <= MaxClock
             /\ Len(TasksOf(TodayData(localStorage))) < MaxTasks
             /\ \E xpInput \in TaskXPInputs, e1 \in SetEnvs(KeysNow),
                   e2 \in UpdateEnvs(TodayData(localStorage)) :
                  localStorage' = addTask(localStorage, today, clock, taskText, currentCategory,
                                          ButtonXP(currentCategory, xpInput), e1, e2)
             /\ clock' = clock + 1
             /\ ret' = ret
             /\ UNCHANGED <<today, currentCategory, currentEditingTaskId, dom>>

\* scripts.js:922-944, a click on a task's checkbox
ToggleTask ==
    \E taskId \in TaskIds :
        IF FindTask(TasksOf(TodayData(localStorage)), taskId) = 0
        THEN /\ ret' = ret
             /\ UNCHANGED <<localStorage, today, clock, currentCategory, currentEditingTaskId, dom>>
        ELSE /\ clock <= MaxClock
             /\ \E e1 \in SetEnvs(KeysNow), e2 \in UpdateEnvs(TodayData(localStorage)) :
                    localStorage' = toggleTask(localStorage, today, taskId, e1, e2)
             /\ clock' = clock + 1
             /\ ret' = ret
             /\ UNCHANGED <<today, currentCategory, currentEditingTaskId, dom>>

\* scripts.js:1126-1138; `confirmed` is the user's answer to confirm()
DeleteTask ==
    \E taskId \in TaskIds, confirmed \in BOOLEAN :
        IF ~confirmed \/ ~HasField(TodayData(localStorage), "tasks")
        THEN /\ ret' = ret
             /\ UNCHANGED <<localStorage, today, clock, currentCategory, currentEditingTaskId, dom>>
        ELSE /\ clock <= MaxClock
             /\ \E e1 \in SetEnvs(KeysNow), e2 \in UpdateEnvs(TodayData(localStorage)) :
                    localStorage' = deleteTask(localStorage, today, taskId, e1, e2)
             /\ clock' = clock + 1
             /\ ret' = ret
             /\ UNCHANGED <<today, currentCategory, currentEditingTaskId, dom>>

\* scripts.js:1110-1124
EditTask ==
    \E taskId \in TaskIds :
        LET data == TodayData(localStorage) IN
        /\ currentEditingTaskId' =
               IF HasField(data, "tasks") /\ FindTask(TasksOf(data), taskId) # 0
               THEN taskId ELSE currentEditingTaskId
        /\ ret' = ret
        /\ UNCHANGED <<localStorage, today, clock, currentCategory, dom>>

\* scripts.js:1174-1177
CloseEditModal ==
    /\ currentEditingTaskId' = 0
    /\ ret' = ret
    /\ UNCHANGED <<localStorage, today, clock, currentCategory, dom>>

\* scripts.js:1140-1172
SaveTaskEdit ==
    \E text \in TaskTexts, xpValue \in EditXPInputs :
        LET taskText == Trim(text) IN
        IF TaskEditRejected(taskText, xpValue)
        THEN /\ ret' = ret
             /\ UNCHANGED <<localStorage, today, clock, currentCategory, currentEditingTaskId, dom>>
        ELSE \E category \in EditCategoryInputs, e1 \in SetEnvs(KeysNow),
                e2 \in UpdateEnvs(TodayData(localStorage)) :
                LET r == saveTaskEdit(localStorage, today, currentEditingTaskId, taskText,
                                      xpValue, category, e1, e2)
                IN /\ r.saved => clock <= MaxClock
                   /\ localStorage' = r.store
                   /\ currentEditingTaskId' = IF r.saved THEN 0 ELSE currentEditingTaskId
                   /\ clock' = IF r.saved THEN clock + 1 ELSE clock
                   /\ ret' = ret
                   /\ UNCHANGED <<today, currentCategory, dom>>

\* scripts.js:946-971
AddQuickDomainXP ==
    \E domain \in DomainInputs, e1 \in SetEnvs(KeysNow), e2 \in UpdateEnvs(TodayData(localStorage)) :
        /\ DomainsXP(TodayData(localStorage)) + ActivityXP <= MaxDomainTotal
        /\ localStorage' = addDomainXP(localStorage, today, domain, domain, ActivityXP, TRUE, e1, e2)
        /\ clock <= MaxClock
        /\ clock' = clock + 1
        /\ ret' = ret
        /\ UNCHANGED <<today, currentCategory, currentEditingTaskId, dom>>

\* scripts.js:973-993
AddDomainActivity ==
    \E domain \in DomainInputs, e1 \in SetEnvs(KeysNow), e2 \in UpdateEnvs(TodayData(localStorage)) :
        /\ DomainsXP(TodayData(localStorage)) + ActivityXP <= MaxDomainTotal
        /\ localStorage' = addDomainXP(localStorage, today, domain, "act", ActivityXP, FALSE, e1, e2)
        /\ clock <= MaxClock
        /\ clock' = clock + 1
        /\ ret' = ret
        /\ UNCHANGED <<today, currentCategory, currentEditingTaskId, dom>>

\* scripts.js:1348-1393
SaveAlignment ==
    \E text \in AlignmentReasons :
        LET reason == Trim(text) IN
        IF AlignmentReasonRejected(reason)
        THEN /\ ret' = ret
             /\ UNCHANGED <<localStorage, today, clock, currentCategory, currentEditingTaskId, dom>>
        ELSE \E e1 \in SetEnvs(KeysNow) :
             LET r == saveAlignment(localStorage, today, reason, e1) IN
             /\ r.saved => clock <= MaxClock
             /\ clock' = IF r.saved THEN clock + 1 ELSE clock
             /\ localStorage' = r.store
             /\ dom' = IF r.saved
                       THEN [dom EXCEPT !.streakCount = loadStreak(r.store, today).currentStreak]
                       ELSE dom
             /\ ret' = ret
             /\ UNCHANGED <<today, currentCategory, currentEditingTaskId>>

\* scripts.js:1395-1479, run at start-up and by the hourly timer (scripts.js:1879)
LoadStreak ==
    /\ dom' = [dom EXCEPT !.streakCount = loadStreak(localStorage, today).currentStreak]
    /\ ret' = ret
    /\ UNCHANGED <<localStorage, today, clock, currentCategory, currentEditingTaskId>>

\* Midnight passes: `new Date()` falls on the next day
NextDay ==
    /\ today < MaxDay
    /\ today' = today + 1
    /\ ret' = ret
    /\ UNCHANGED <<localStorage, clock, currentCategory, currentEditingTaskId, dom>>

Next ==
    \/ SelectCategory
    \/ AddTask
    \/ ToggleTask
    \/ DeleteTask
    \/ EditTask
    \/ CloseEditModal
    \/ SaveTaskEdit
    \/ AddQuickDomainXP
    \/ AddDomainActivity
    \/ SaveAlignment
    \/ LoadStreak
    \/ NextDay

Spec == Init /\ [][Next]_vars

-----------------------------------------------------------------------------
(* The store specification: one safeLocalStorageGet or safeLocalStorageSet  *)
(* call on a drawn store.  The stores are those the application can hold:   *)
(* day records it wrote, texts a full disk, another tab or a restored       *)
(* backup (scripts.js:777-782 writes any key of the file) left behind.      *)

StoreToday == DayNumber(2026, 5, 1)

OldDayKey == DayKey(0)                            \* "mastery_2026-01-01", before the cutoff
UnpaddedKey == "mastery_" \o UnpaddedDate(1)      \* "mastery_2026-1-2", a key of the tested length
TodayKey == DayKey(StoreToday)
OtherKey == "industry_relationships"
StoreKeys == {OldDayKey, UnpaddedKey, TodayKey, OtherKey}

\* A day record as the handlers write it
SampleRecord ==
    Obj([domains |-> [d \in {"creation"} |-> [total |-> 40, activities |-> <<>>]],
         tasks |-> <<>>,
         alignment |-> Bool(TRUE),
         totalXP |-> 40])

\* The texts drawn for today's key
DayItemKinds == 1..7
DayItem(kind) ==
    CASE kind = 1 -> [raw |-> ""]
      [] kind = 2 -> [raw |-> "{\"tasks\":[" ]
      [] kind = 3 -> [json |-> Null]
      [] kind = 4 -> [json |-> Num(7)]
      [] kind = 5 -> [json |-> EmptyObject]
      [] kind = 6 -> [json |-> Obj([tasks |-> <<>>, alignment |-> Str("yes")])]
      [] OTHER -> [json |-> SampleRecord]

\* The texts drawn for the other key
OtherItemKinds == 1..2
OtherItem(kind) ==
    CASE kind = 1 -> [json |-> Obj([people |-> <<>>])]
      [] OTHER -> [raw |-> "undefined"]

DrawnStore(old, unpadded, day, other) ==
    [k \in (IF old THEN {OldDayKey} ELSE {}) \cup (IF unpadded THEN {UnpaddedKey} ELSE {})
           \cup (IF day # 0 THEN {TodayKey} ELSE {}) \cup (IF other # 0 THEN {OtherKey} ELSE {})
        |-> CASE k = TodayKey -> DayItem(day)
              [] k = OtherKey -> OtherItem(other)
              [] OTHER -> [json |-> SampleRecord]]

\* The fallbacks a caller passes
FallbackKinds == 1..2
Fallback(kind) == IF kind = 1 THEN EmptyObject ELSE Null

\* The values a caller saves
SavedValueKinds == 1..2
SavedValue(kind) == IF kind = 1 THEN SampleRecord ELSE Obj([tasks |-> <<>>])

InitStore ==
    /\ \E old \in BOOLEAN, unpadded \in BOOLEAN, day \in {0} \cup DayItemKinds,
          other \in {0} \cup OtherItemKinds :
           localStorage = DrawnStore(old, unpadded, day, other)
    /\ today = StoreToday
    /\ clock = 1
    /\ currentCategory = "critical"
    /\ currentEditingTaskId = 0
    /\ dom = DomInit
    /\ ret = [op |-> "init"]

\* scripts.js:2-20, one call
Get ==
    /\ ret.op = "init"
    /\ \E key \in StoreKeys, kind \in FallbackKinds :
        LET r == SafeGetCall(localStorage, key, Fallback(kind)) IN
        ret' = [op |-> "get", key |-> key, fallback |-> Fallback(kind),
                value |-> r.value, raised |-> r.raised]
    /\ UNCHANGED <<localStorage, today, clock, currentCategory, currentEditingTaskId, dom>>

\* scripts.js:22-40, one call
Set ==
    /\ ret.op = "init"
    /\ \E key \in {TodayKey, OtherKey}, kind \in SavedValueKinds, env \in SetEnvs(DOMAIN localStorage) :
        LET r == SafeSetCall(localStorage, today, key, SavedValue(kind), env) IN
        /\ localStorage' = r.store
        /\ ret' = [op |-> "set", key |-> key, value |-> SavedValue(kind),
                   first |-> env.first, retry |-> env.retry, lenient |-> env.lenient,
                   before |-> localStorage, swept |-> r.swept,
                   result |-> r.result, raised |-> r.raised,
                   sweeps |-> r.sweeps, writes |-> r.writes]
    /\ UNCHANGED <<today, clock, currentCategory, currentEditingTaskId, dom>>

NextStore ==
    \/ Get
    \/ Set

SpecStore == InitStore /\ [][NextStore]_vars

-----------------------------------------------------------------------------
(* The streak specification: loadStreak and updateStreakCalculator on a     *)
(* drawn history.  Yesterday and the `run` days before it hold one kind of  *)
(* record, the day before them another, the two days before that a third,   *)
(* and today a fourth.                                                      *)

StreakToday == DayNumber(2026, 3, 15)

ATask(id, category, xp, completed) ==
    [id |-> id, text |-> "Read sides", category |-> category, xp |-> xp, completed |-> completed]
ADomain(total) == [total |-> total, activities |-> <<[category |-> "act", xp |-> total, quick |-> FALSE]>>]

\* The kinds of day record drawn; kind 1 is no record
RecordKinds == 1..7
RecordOfKind(kind) ==
    CASE kind = 2 ->    \* aligned with 160 XP of tasks, as saveAlignment leaves it
             Obj([domains |-> <<>>, tasks |-> <<ATask(1, "act", 160, TRUE)>>,
                  alignment |-> Bool(TRUE), alignmentReason |-> "Booked the pilot", totalXP |-> 160])
      [] kind = 3 ->    \* aligned, 160 XP of activities, no cached totalXP
             Obj([domains |-> [d \in {"creation"} |-> ADomain(160)], tasks |-> <<>>,
                  alignment |-> Bool(TRUE)])
      [] kind = 4 ->    \* 200 XP and no alignment
             Obj([domains |-> [d \in {"creation", "physical"} |-> ADomain(100)], tasks |-> <<>>,
                  alignment |-> Bool(FALSE)])
      [] kind = 5 ->    \* aligned, then edited down to 159 XP
             Obj([domains |-> <<>>, tasks |-> <<ATask(1, "act", 159, TRUE)>>,
                  alignment |-> Bool(TRUE), alignmentReason |-> "Booked the pilot", totalXP |-> 159])
      [] kind = 6 ->    \* aligned, the task unticked and ticked again, the last cache write lost
             Obj([domains |-> <<>>, tasks |-> <<ATask(1, "act", 160, TRUE)>>,
                  alignment |-> Bool(TRUE), alignmentReason |-> "Booked the pilot", totalXP |-> 0])
      [] OTHER ->       \* creation 50, physical 30, a completed critical task, an open task
             Obj([domains |-> [d \in {"creation", "physical"} |->
                                  IF d = "creation" THEN ADomain(50) ELSE ADomain(30)],
                  tasks |-> <<ATask(1, "critical", 5, TRUE), ATask(2, "act", 40, FALSE)>>,
                  alignment |-> Bool(FALSE)])

RunKinds == {2, 3, 6}
BreakerKinds == {1, 2, 4, 5, 7}
BeyondKinds == {1, 2}
TodayKinds == {1, 2, 5, 6, 7}

\* The kind of the record i days before today
KindAt(i, run, runKind, breaker, beyond, todayKind) ==
    IF i = 0 THEN todayKind
    ELSE IF i <= run THEN runKind
    ELSE IF i = run + 1 THEN breaker
    ELSE IF i <= run + 3 THEN beyond
    ELSE 1

RECURSIVE DrawnHistory(_, _, _, _, _, _)
\* The store holding the records of the days i, i + 1, ..., run + 3 before today
DrawnHistory(i, run, runKind, breaker, beyond, todayKind) ==
    IF i > run + 3 THEN <<>>
    ELSE LET rest == DrawnHistory(i + 1, run, runKind, breaker, beyond, todayKind)
             kind == KindAt(i, run, runKind, breaker, beyond, todayKind)
         IN IF kind = 1 THEN rest
            ELSE SetField(rest, DayKey(StreakToday - i), JSONStringify(RecordOfKind(kind)))

InitStreak ==
    /\ \E run \in 0..MaxRun, runKind \in RunKinds, breaker \in BreakerKinds,
          beyond \in BeyondKinds, todayKind \in TodayKinds :
           localStorage = DrawnHistory(0, run, runKind, breaker, beyond, todayKind)
    /\ today = StreakToday
    /\ clock = 1
    /\ currentCategory = "critical"
    /\ currentEditingTaskId = 0
    /\ dom = DomInit
    /\ ret = [op |-> "init"]

\* scripts.js:1395-1479, one call
RunLoadStreak ==
    /\ ret.op = "init"
    /\ LET r == loadStreak(localStorage, today) IN
       /\ dom' = [dom EXCEPT !.streakCount = r.currentStreak]
       /\ ret' = [op |-> "loadStreak", todayComplete |-> r.todayComplete]
    /\ UNCHANGED <<localStorage, today, clock, currentCategory, currentEditingTaskId>>

\* scripts.js:1024-1041, one call
RunUpdateStreakCalculator ==
    /\ ret.op = "init"
    /\ LET r == updateStreakCalculator(localStorage, today) IN
       ret' = [op |-> "updateStreakCalculator", currentXP |-> r.currentXP, xpNeeded |-> r.xpNeeded]
    /\ UNCHANGED <<localStorage, today, clock, currentCategory, currentEditingTaskId, dom>>

NextStreak ==
    \/ RunLoadStreak
    \/ RunUpdateStreakCalculator

SpecStreak == InitStreak /\ [][NextStreak]_vars

-----------------------------------------------------------------------------
(* The momentum specification: getLast7DaysData and calculateMomentumScore  *)
(* on a drawn week.  The three most recent days hold one kind of record,    *)
(* the four before them another, and one day of the week a third.           *)

MomentumToday == DayNumber(2026, 3, 4)

\* The kinds of day record drawn; kind 1 is no record
WeekKinds == 1..6
WeekRecord(kind) ==
    CASE kind = 2 ->    \* 50 XP of tasks
             Obj([domains |-> <<>>, tasks |-> <<ATask(1, "act", 50, TRUE)>>,
                  alignment |-> Bool(FALSE)])
      [] kind = 3 ->    \* 40 XP of creation activity, a completed creation task, an open task
             Obj([domains |-> [d \in {"creation"} |-> ADomain(40)],
                  tasks |-> <<ATask(1, "act", 40, TRUE), ATask(2, "gym", 40, FALSE)>>,
                  alignment |-> Bool(FALSE)])
      [] kind = 4 ->    \* 160 XP of tasks, aligned
             Obj([domains |-> <<>>, tasks |-> <<ATask(1, "act", 160, TRUE)>>,
                  alignment |-> Bool(TRUE), alignmentReason |-> "Booked the pilot", totalXP |-> 160])
      [] kind = 5 ->    \* 60 XP of activity in each domain, aligned
             Obj([domains |-> [d \in DomainNames |-> ADomain(60)], tasks |-> <<>>,
                  alignment |-> Bool(TRUE), alignmentReason |-> "Booked the pilot", totalXP |-> 240])
      [] OTHER ->       \* 40 XP of activity in each domain, aligned
             Obj([domains |-> [d \in DomainNames |-> ADomain(40)], tasks |-> <<>>,
                  alignment |-> Bool(TRUE), alignmentReason |-> "Booked the pilot", totalXP |-> 160])

QualifyingKinds == {4, 5, 6}

RECURSIVE DrawnWeek(_, _, _, _, _)
\* The store holding the records of the days i, ..., 6 before today
DrawnWeek(i, recentKind, olderKind, oneDay, oneKind) ==
    IF i >= WindowDays THEN <<>>
    ELSE LET rest == DrawnWeek(i + 1, recentKind, olderKind, oneDay, oneKind)
             kind == IF i = oneDay THEN oneKind ELSE IF i < 3 THEN recentKind ELSE olderKind
         IN IF kind = 1 THEN rest
            ELSE SetField(rest, DayKey(MomentumToday - i), JSONStringify(WeekRecord(kind)))

InitMomentum ==
    /\ \E recentKind \in WeekKinds, olderKind \in WeekKinds, oneDay \in 0..(WindowDays - 1),
          oneKind \in WeekKinds :
           localStorage = DrawnWeek(0, recentKind, olderKind, oneDay, oneKind)
    /\ today = MomentumToday
    /\ clock = 1
    /\ currentCategory = "critical"
    /\ currentEditingTaskId = 0
    /\ dom = DomInit
    /\ ret = [op |-> "init"]

\* scripts.js:248-283, one call
RunGetLast7DaysData ==
    /\ ret.op = "init"
    /\ ret' = [op |-> "getLast7DaysData", days |-> getLast7DaysData(localStorage, today)]
    /\ UNCHANGED <<localStorage, today, clock, currentCategory, currentEditingTaskId, dom>>

\* scripts.js:144-169, one call
RunCalculateMomentumScore ==
    /\ ret.op = "init"
    /\ LET r == calculateMomentumScore(localStorage, today) IN
       ret' = [op |-> "calculateMomentumScore", score |-> r.score, trend |-> r.trend,
               recommendation |-> r.recommendation,
               factors |-> IF "factors" \in DOMAIN r THEN r.factors ELSE <<>>]
    /\ UNCHANGED <<localStorage, today, clock, currentCategory, currentEditingTaskId, dom>>

\* calculateMomentumScore on the week (B) and on the week with one day of less
\* than 160 XP replaced by a day of 160 XP or more (A)
CompareWeeks ==
    /\ ret.op = "init"
    /\ \E i \in 0..(WindowDays - 1), kind \in QualifyingKinds :
        /\ WindowEntry(localStorage, today, i).totalXP < StreakThreshold
        /\ LET replaced == SetField(localStorage, DayKey(today - i), JSONStringify(WeekRecord(kind)))
               b == calculateMomentumScore(localStorage, today)
               a == calculateMomentumScore(replaced, today)
           IN ret' = [op |-> "compareWeeks", day |-> i,
                      xpA |-> WindowEntry(replaced, today, i).totalXP,
                      scoreB |-> b.score, factorsB |-> b.factors,
                      scoreA |-> a.score, factorsA |-> a.factors]
    /\ UNCHANGED <<localStorage, today, clock, currentCategory, currentEditingTaskId, dom>>

NextMomentum ==
    \/ RunGetLast7DaysData
    \/ RunCalculateMomentumScore
    \/ CompareWeeks

SpecMomentum == InitMomentum /\ [][NextMomentum]_vars

-----------------------------------------------------------------------------
(* The weak-domain specification: findWeakDomains on a drawn week.  Every   *)
(* day holds `creation` XP of creation activity and `physical` XP of        *)
(* physical activity, but for one day whose creation activity is drawn      *)
(* apart; a day with no activity has no record.                             *)

RECURSIVE DrawnTotals(_, _, _, _, _)
\* The store holding the records of the days i, ..., 6 before today
DrawnTotals(i, creation, physical, oneDay, oneValue) ==
    IF i >= WindowDays THEN <<>>
    ELSE LET rest == DrawnTotals(i + 1, creation, physical, oneDay, oneValue)
             c == IF i = oneDay THEN oneValue ELSE creation
             totals == [d \in {"creation", "physical"} |-> IF d = "creation" THEN c ELSE physical]
             active == {d \in DOMAIN totals : totals[d] > 0}
         IN IF active = {} THEN rest
            ELSE SetField(rest, DayKey(MomentumToday - i),
                          JSONStringify(Obj([domains |-> [d \in active |-> ADomain(totals[d])],
                                             tasks |-> <<ATask(1, "yoga", 40, TRUE)>>,
                                             alignment |-> Bool(FALSE)])))

InitWeak ==
    /\ \E creation \in {0, 28, 40}, physical \in {0, 28, 40}, oneDay \in 0..(WindowDays - 1),
          oneValue \in {0, 27, 28, 29} :
           localStorage = DrawnTotals(0, creation, physical, oneDay, oneValue)
    /\ today = MomentumToday
    /\ clock = 1
    /\ currentCategory = "critical"
    /\ currentEditingTaskId = 0
    /\ dom = DomInit
    /\ ret = [op |-> "init"]

\* scripts.js:378-400, one call
RunFindWeakDomains ==
    /\ ret.op = "init"
    /\ ret' = [op |-> "findWeakDomains", weakDomains |-> findWeakDomains(localStorage, today)]
    /\ UNCHANGED <<localStorage, today, clock, currentCategory, currentEditingTaskId, dom>>

NextWeak == RunFindWeakDomains

SpecWeak == InitWeak /\ [][NextWeak]_vars

-----------------------------------------------------------------------------
(* The probability specification: calculateHollywoodProbability on drawn    *)
(* counts, each range passing the count at which its share reaches the cap  *)
(* (25 days, 50 auditions, 8 callbacks, 1 role).                            *)

InitProbability ==
    /\ \E streak \in 0..MaxStreakShown, tier1Auditions \in 0..MaxTier1Auditions,
          callbacks \in 0..MaxCallbacks, roles \in 0..MaxRoles :
           dom = [streakCount |-> streak, tier1Auditions |-> tier1Auditions,
                  callbacksCount |-> callbacks, rolesCount |-> roles]
    /\ localStorage = <<>>
    /\ today = MomentumToday
    /\ clock = 1
    /\ currentCategory = "critical"
    /\ currentEditingTaskId = 0
    /\ ret = [op |-> "init"]

\* scripts.js:552-578, one call on the counts shown
RunCalculateHollywoodProbability ==
    /\ ret.op = "init"
    /\ LET p == calculateHollywoodProbability(dom.streakCount, dom.tier1Auditions,
                                              dom.callbacksCount, dom.rolesCount)
       IN ret' = [op |-> "calculateHollywoodProbability", total |-> p.total,
                  breakdown |-> p.breakdown]
    /\ UNCHANGED <<localStorage, today, clock, currentCategory, currentEditingTaskId, dom>>

\* calculateHollywoodProbability on the counts shown (B) and on the counts with
\* one of them increased (A)
CompareProbabilities ==
    /\ ret.op = "init"
    /\ \E input \in DOMAIN dom, by \in 1..MaxIncrease :
        LET raised == [dom EXCEPT ![input] = @ + by]
            b == calculateHollywoodProbability(dom.streakCount, dom.tier1Auditions,
                                               dom.callbacksCount, dom.rolesCount)
            a == calculateHollywoodProbability(raised.streakCount, raised.tier1Auditions,
                                               raised.callbacksCount, raised.rolesCount)
        IN ret' = [op |-> "compareProbabilities", input |-> input, by |-> by,
                   totalB |-> b.total, totalA |-> a.total]
    /\ UNCHANGED <<localStorage, today, clock, currentCategory, currentEditingTaskId, dom>>

NextProbability ==
    \/ RunCalculateHollywoodProbability
    \/ CompareProbabilities

SpecProbability == InitProbability /\ [][NextProbability]_vars

-----------------------------------------------------------------------------
(* The refresh specification: the metrics computations and the timers that  *)
(* run them (scripts.js:820-821, 844-845, 1879), on a drawn week.           *)

InitRefresh ==
    /\ \E recentKind \in WeekKinds, olderKind \in WeekKinds, oneDay \in 0..(WindowDays - 1),
          oneKind \in WeekKinds :
           localStorage = DrawnWeek(0, recentKind, olderKind, oneDay, oneKind)
    /\ today = MomentumToday
    /\ clock = 1
    /\ currentCategory = "critical"
    /\ currentEditingTaskId = 0
    /\ dom = [streakCount |-> 0, tier1Auditions |-> 3, callbacksCount |-> 1, rolesCount |-> 0,
              momentumScore |-> 0, momentumTrend |-> "", probabilityScore |-> 0]
    /\ ret = [op |-> "init"]

\* scripts.js:285-304, run at start-up and every minute
UpdateMomentumDisplay ==
    /\ LET momentum == calculateMomentumScore(localStorage, today) IN
       dom' = [dom EXCEPT !.momentumScore = momentum.score, !.momentumTrend = momentum.trend]
    /\ localStorage' = StoreAfterReads(localStorage, today, 0, WindowDays - 1)
    /\ ret' = [op |-> "updateMomentumDisplay"]
    /\ UNCHANGED <<today, clock, currentCategory, currentEditingTaskId>>

\* scripts.js:378-400, one call (generateTomorrowPreview, scripts.js:337)
FindWeakDomains ==
    /\ ret' = [op |-> "findWeakDomains", weakDomains |-> findWeakDomains(localStorage, today)]
    /\ localStorage' = StoreAfterReads(localStorage, today, 0, WindowDays - 1)
    /\ UNCHANGED <<today, clock, currentCategory, currentEditingTaskId, dom>>

\* scripts.js:580-617, run at start-up and every 30 seconds; it reads the page only
UpdateProbabilityDisplay ==
    /\ LET probability == calculateHollywoodProbability(dom.streakCount, dom.tier1Auditions,
                                                        dom.callbacksCount, dom.rolesCount)
       IN dom' = [dom EXCEPT !.probabilityScore = probability.total]
    /\ ret' = [op |-> "updateProbabilityDisplay"]
    /\ UNCHANGED <<localStorage, today, clock, currentCategory, currentEditingTaskId>>

\* scripts.js:1395-1479, run at start-up and every hour: it reads today's record
\* and the earlier records up to the first that breaks the streak
LoadStreakTimer ==
    /\ LET streak == loadStreak(localStorage, today).currentStreak IN
       /\ dom' = [dom EXCEPT !.streakCount = streak]
       /\ localStorage' = StoreAfterReads(localStorage, today, 0, Min(streak + 1, StreakWalkDays))
    /\ ret' = [op |-> "loadStreak"]
    /\ UNCHANGED <<today, clock, currentCategory, currentEditingTaskId>>

NextRefresh ==
    \/ UpdateMomentumDisplay
    \/ FindWeakDomains
    \/ UpdateProbabilityDisplay
    \/ LoadStreakTimer

SpecRefresh == InitRefresh /\ [][NextRefresh]_vars

-----------------------------------------------------------------------------
(* The validation specification: one call of addTask, saveTaskEdit or       *)
(* saveAlignment on a drawn record of today, the call and the store before  *)
(* it kept in `ret`.                                                        *)

InitValidation ==
    /\ \E kind \in RecordKinds :
        /\ localStorage = IF kind = 1 THEN <<>>
                          ELSE SetField(<<>>, DayKey(StreakToday), JSONStringify(RecordOfKind(kind)))
        \* the edit modal is closed, or open on a task of the record (scripts.js:1110-1124)
        /\ currentEditingTaskId \in
               {0} \cup (IF kind = 1 THEN {}
                         ELSE {RecordOfKind(kind).o["tasks"][i].id :
                                   i \in 1..Len(RecordOfKind(kind).o["tasks"])})
    /\ today = StreakToday
    /\ clock = MaxTasks + 1
    /\ currentCategory \in {"critical"} \cup CategoryInputs
    /\ dom = DomInit
    /\ ret = [op |-> "init"]

\* scripts.js:889-920, one call
CallAddTask ==
    /\ ret.op = "init"
    /\ \E text \in TaskTexts, xpInput \in TaskXPInputs, e1 \in SetEnvs(KeysNow),
          e2 \in UpdateEnvs(TodayData(localStorage)) :
        LET taskText == Trim(text) IN
        /\ localStorage' =
               IF TaskTextRejected(taskText) THEN localStorage
               ELSE addTask(localStorage, today, clock, taskText, currentCategory,
                            ButtonXP(currentCategory, xpInput), e1, e2)
        /\ ret' = [op |-> "addTask", text |-> text, before |-> localStorage]
    /\ UNCHANGED <<today, clock, currentCategory, currentEditingTaskId, dom>>

\* scripts.js:1140-1172, one call
CallSaveTaskEdit ==
    /\ ret.op = "init"
    /\ \E text \in TaskTexts, xpValue \in EditXPInputs, category \in EditCategoryInputs,
          e1 \in SetEnvs(KeysNow), e2 \in UpdateEnvs(TodayData(localStorage)) :
        LET taskText == Trim(text)
            r == IF TaskEditRejected(taskText, xpValue)
                 THEN [store |-> localStorage, saved |-> FALSE]
                 ELSE saveTaskEdit(localStorage, today, currentEditingTaskId, taskText,
                                   xpValue, category, e1, e2)
        IN /\ localStorage' = r.store
           /\ currentEditingTaskId' = IF r.saved THEN 0 ELSE currentEditingTaskId
           /\ ret' = [op |-> "saveTaskEdit", text |-> text, xp |-> xpValue,
                      editing |-> currentEditingTaskId, before |-> localStorage]
    /\ UNCHANGED <<today, clock, currentCategory, dom>>

\* scripts.js:1348-1393, one call
CallSaveAlignment ==
    /\ ret.op = "init"
    /\ \E text \in AlignmentReasons, e1 \in SetEnvs(KeysNow) :
        LET reason == Trim(text)
            r == IF AlignmentReasonRejected(reason)
                 THEN [store |-> localStorage, saved |-> FALSE]
                 ELSE saveAlignment(localStorage, today, reason, e1)
        IN /\ localStorage' = r.store
           /\ dom' = IF r.saved
                     THEN [dom EXCEPT !.streakCount = loadStreak(r.store, today).currentStreak]
                     ELSE dom
           /\ ret' = [op |-> "saveAlignment", text |-> text, before |-> localStorage]
    /\ UNCHANGED <<today, clock, currentCategory, currentEditingTaskId>>

NextValidation ==
    \/ CallAddTask
    \/ CallSaveTaskEdit
    \/ CallSaveAlignment

SpecValidation == InitValidation /\ [][NextValidation]_vars

-----------------------------------------------------------------------------
(* The backup specification: the industry and metric logs grow from a       *)
(* fresh install or from a store with a day record, an intensity, a goal    *)
(* path and a runway, and a backup is taken.                                *)

InteractionTypeInputs == {"", "1", "3", "9"}           \* the answer to the first prompt
InteractionDetails == {"", "ab", "  ab  ", "Met the casting director"}
MetricInputs == {"tier1-auditions", "roles-count"}     \* the metric buttons
MetricDetails == {"", " HBO  ", " Pilot for HBO "}

\* A store the other handlers have written (scripts.js:514, 1490, 1644-1645)
SettledStore ==
    [k \in {DayKey(StoreToday), "current_intensity", "mastery_goal_path",
            "mastery_runway_savings", "mastery_runway_expenses"} |->
        CASE k = DayKey(StoreToday) -> JSONStringify(SampleRecord)
          [] k = "current_intensity" -> [raw |-> "superstar"]
          [] k = "mastery_goal_path" -> JSONStringify(Obj([ultimateAim |-> "Lead in a feature"]))
          [] k = "mastery_runway_savings" -> JSONStringify(Num(15000))
          [] OTHER -> JSONStringify(Num(3500))]

InitBackup ==
    /\ localStorage \in {<<>>, SettledStore}
    /\ today = StoreToday
    /\ clock = 1
    /\ currentCategory = "critical"
    /\ currentEditingTaskId = 0
    /\ dom = [m \in MetricInputs |-> 0]
    /\ ret = [op |-> "init"]

\* scripts.js:651-689
LogIndustryInteraction ==
    /\ ret.op = "init"
    /\ \E interactionType \in InteractionTypeInputs, details \in InteractionDetails,
          outcome \in RetryOutcomes :
        /\ interactionType \in DOMAIN InteractionTypes =>
               Len(ParseLog(localStorage, "industry_" \o InteractionTypes[interactionType].key
                                              \o "_" \o MonthOf(today)).list) < MaxLog
        /\ localStorage' = logIndustryInteraction(localStorage, today, interactionType,
                                                  details, outcome)
    /\ UNCHANGED <<today, clock, currentCategory, currentEditingTaskId, dom, ret>>

\* scripts.js:1563-1597
IncrementMetric ==
    /\ ret.op = "init"
    /\ \E metricId \in MetricInputs, detail \in MetricDetails, outcome1 \in RetryOutcomes,
          outcome2 \in RetryOutcomes :
        LET r == incrementMetric(localStorage, today, metricId, detail, outcome1, outcome2) IN
        /\ Len(ParseLog(localStorage, metricId \o "_history_" \o MonthOf(today)).list) < MaxLog
        /\ localStorage' = r.store
        /\ dom' = IF r.shown THEN [dom EXCEPT ![metricId] = r.count] ELSE dom
    /\ UNCHANGED <<today, clock, currentCategory, currentEditingTaskId, ret>>

\* scripts.js:704-745
BackupEntireSystem ==
    /\ ret.op = "init"
    /\ \E outcome \in RetryOutcomes :
        LET r == backupEntireSystem(localStorage, today, outcome) IN
        /\ localStorage' = r.store
        /\ ret' = [op |-> "backupEntireSystem", entries |-> r.entries, metadata |-> r.metadata,
                   before |-> localStorage]
    /\ UNCHANGED <<today, clock, currentCategory, currentEditingTaskId, dom>>

NextBackup ==
    \/ LogIndustryInteraction
    \/ IncrementMetric
    \/ BackupEntireSystem

SpecBackup == InitBackup /\ [][NextBackup]_vars

-----------------------------------------------------------------------------
(* The restore specification: a metric is logged, days pass, backups are    *)
(* taken and files are restored: the last backup downloaded, or a file that *)
(* is no backup of this system.  `ret` keeps the downloaded file, the store *)
(* it was taken from and the day it was taken on.                           *)

RestoreMetricInputs == {"roles-count"}      \* the metric button pressed

\* Files that backupEntireSystem did not write: no JSON, the JSON null, an
\* object without _metadata, and the backup of another system
ForeignFiles ==
    {[raw |-> "hollywood backup"],
     JSONStringify(Null),
     JSONStringify(Obj([k \in {"current_intensity"} |-> Str([raw |-> "legend"])])),
     BackupFile([k \in {"current_intensity"} |-> [raw |-> "legend"]],
                [version |-> "2.0", backupDate |-> ToISODate(StoreToday), totalEntries |-> 1,
                 system |-> "Broadway Mastery Protocol"])}

\* The files the user can pick in the file dialog
RestoreFiles == ForeignFiles \cup (IF ret.hasFile THEN {ret.file} ELSE {})

\* The keys of a file's object other than _metadata
FileKeys(text) ==
    LET p == JSONParse(text) IN
    IF p.ok /\ p.v.t = "object" THEN DOMAIN p.v.o \ {"_metadata"} ELSE {}

InitRestore ==
    /\ localStorage \in {<<>>, [k \in {"current_intensity"} |-> [raw |-> "superstar"]]}
    /\ today = StoreToday
    /\ clock = 1
    /\ currentCategory = "critical"
    /\ currentEditingTaskId = 0
    /\ dom = [m \in RestoreMetricInputs |-> 0]
    /\ ret = [op |-> "init", hasFile |-> FALSE]

\* scripts.js:1563-1597
MetricLogged ==
    /\ \E metricId \in RestoreMetricInputs, detail \in MetricDetails,
          outcome1 \in RetryOutcomes, outcome2 \in RetryOutcomes :
        /\ Len(ParseLog(localStorage, metricId \o "_history_" \o MonthOf(today)).list) < MaxLog
        /\ \E r \in {incrementMetric(localStorage, today, metricId, detail, outcome1, outcome2)} :
            /\ localStorage' = r.store
            /\ dom' = IF r.shown THEN [dom EXCEPT ![metricId] = r.count] ELSE dom
    /\ ret' = IF ret.hasFile
              THEN [op |-> "incrementMetric", hasFile |-> TRUE, file |-> ret.file,
                    source |-> ret.source, taken |-> ret.taken]
              ELSE [op |-> "incrementMetric", hasFile |-> FALSE]
    /\ UNCHANGED <<today, clock, currentCategory, currentEditingTaskId>>

\* scripts.js:704-745
BackupTaken ==
    /\ \E outcome \in RetryOutcomes :
        \E r \in {backupEntireSystem(localStorage, today, outcome)} :
            /\ localStorage' = r.store
            /\ ret' = [op |-> "backupEntireSystem", hasFile |-> TRUE,
                       file |-> BackupFile(r.entries, r.metadata),
                       source |-> localStorage, taken |-> today]
    /\ UNCHANGED <<today, clock, currentCategory, currentEditingTaskId, dom>>

\* scripts.js:747-797
RestoreSystemBackup ==
    /\ \E text \in RestoreFiles, confirmed \in BOOLEAN, rank \in Orders(DOMAIN localStorage) :
        \E keys \in Orders(FileKeys(text)), failAt \in 0..Cardinality(FileKeys(text)) :
            \E r \in {restoreSystemBackup(localStorage, text, confirmed, rank, keys, failAt)} :
                /\ localStorage' = r.store
                /\ ret' = [op |-> "restoreSystemBackup", hasFile |-> ret.hasFile,
                           file |-> IF ret.hasFile THEN ret.file ELSE text,
                           source |-> IF ret.hasFile THEN ret.source ELSE <<>>,
                           taken |-> IF ret.hasFile THEN ret.taken ELSE today,
                           text |-> text, confirmed |-> confirmed, alert |-> r.alert,
                           before |-> localStorage, cleared |-> r.cleared, at |-> today]
    /\ UNCHANGED <<today, clock, currentCategory, currentEditingTaskId, dom>>

\* Midnight passes
DayPasses ==
    /\ today < StoreToday + MaxDay
    /\ today' = today + 1
    /\ UNCHANGED <<localStorage, clock, currentCategory, currentEditingTaskId, dom, ret>>

NextRestore ==
    \/ MetricLogged
    \/ BackupTaken
    \/ RestoreSystemBackup
    \/ DayPasses

SpecRestore == InitRestore /\ [][NextRestore]_vars

-----------------------------------------------------------------------------
(* The startup specification: the page is loaded over a store in which each *)
(* persisted key is absent, holds what the application wrote, or holds a    *)
(* text that is no JSON.                                                    *)

\* The persisted keys drawn: a daily record, the goal path, a weekly review,
\* the relationship ratings, an industry log and a metric history
StartupKeys ==
    <<DayKey(StoreToday), "mastery_goal_path",
      "mastery_review_" \o ToISODate(getWeekStart(StoreToday)), "industry_relationships",
      "industry_events_" \o MonthOf(StoreToday), "roles-count_history_" \o MonthOf(StoreToday)>>

\* What the application writes under the i-th of these keys
WrittenItem(i) ==
    CASE i = 1 -> JSONStringify(SampleRecord)
      [] i = 2 -> JSONStringify(Obj([ultimateAim |-> "Lead in a feature"]))
      [] i = 3 -> JSONStringify(Obj([evidence |-> "Two self-tapes sent"]))
      [] i = 4 -> JSONStringify(Obj([agents |-> 4]))
      [] i = 5 -> JSONStringify(Arr(<<[type |-> "Industry Event", details |-> "Film festival"]>>))
      [] OTHER -> JSONStringify(Arr(<<[date |-> ToISODate(StoreToday), project |-> "Pilot for HBO"]>>))

ItemStates == {"absent", "written", "malformed"}

\* The store in which the i-th key is in state kinds[i]
StartupStore(kinds) ==
    [k \in {StartupKeys[i] : i \in {j \in DOMAIN StartupKeys : kinds[j] # "absent"}} |->
        LET i == CHOOSE j \in DOMAIN StartupKeys : StartupKeys[j] = k IN
        IF kinds[i] = "written" THEN WrittenItem(i) ELSE [raw |-> "{\"truncated\":"]]

InitStartup ==
    /\ \E kinds \in [DOMAIN StartupKeys -> ItemStates] : localStorage = StartupStore(kinds)
    /\ today = StoreToday
    /\ clock = 1
    /\ currentCategory = "critical"
    /\ currentEditingTaskId = 0
    /\ dom = [streakCount |-> 0]
    /\ ret = [op |-> "init"]

\* scripts.js:1876-1877: DOMContentLoaded calls initializeApp
InitializeApp ==
    /\ ret.op = "init"
    /\ \E r \in {initializeApp(localStorage, today)} :
        ret' = [op |-> "initializeApp", completed |-> r.completed, raised |-> r.raised]
    /\ UNCHANGED <<localStorage, today, clock, currentCategory, currentEditingTaskId, dom>>

NextStartup == InitializeApp

SpecStartup == InitStartup /\ [][NextStartup]_vars

-----------------------------------------------------------------------------
(* The debounce specification: debouncedAddQuickDomainXP is called up to    *)
(* MaxCalls times while time passes; `clock` is the time in ticks, `ret`    *)
(* holds the timer, the calls made and the invocations of the wrapped       *)
(* function.                                                                *)

\* The arguments drawn for a call
DebounceArgs == {[domain |-> "creation", amount |-> 10], [domain |-> "physical", amount |-> 25]}

InitDebounce ==
    /\ localStorage \in {<<>>, [k \in {DayKey(StoreToday)} |-> JSONStringify(SampleRecord)]}
    /\ today = StoreToday
    /\ clock = 0
    /\ currentCategory = "critical"
    /\ currentEditingTaskId = 0
    /\ dom = [streakCount |-> 0]
    /\ ret = [op |-> "init", timer |-> NoTimer, calls |-> <<>>, runs |-> <<>>]

\* True when the timer's callback has to run before anything else happens
TimerDue == ret.timer.armed /\ ret.timer.due <= clock

\* debouncedAddQuickDomainXP(domain, amount)
CallDebounced ==
    /\ ~TimerDue
    /\ Len(ret.calls) < MaxCalls
    /\ \E args \in DebounceArgs :
        ret' = [op |-> "call",
                timer |-> executedFunction(ret.timer, clock, DebounceWait, args, Len(ret.calls) + 1),
                calls |-> Append(ret.calls, [at |-> clock, args |-> args]),
                runs |-> ret.runs]
    /\ UNCHANGED <<localStorage, today, clock, currentCategory, currentEditingTaskId, dom>>

\* The timer fires: later() applies addQuickDomainXP to the arguments
TimerFires ==
    /\ TimerDue
    /\ \E r \in {later(ret.timer)} :
        /\ \E e1 \in SetEnvs(KeysNow), e2 \in UpdateEnvs(TodayData(localStorage)) :
            localStorage' = addDomainXP(localStorage, today, r.args.domain, r.args.domain,
                                        r.args.amount, TRUE, e1, e2)
        /\ ret' = [op |-> "later", timer |-> r.timer, calls |-> ret.calls,
                   runs |-> Append(ret.runs, [at |-> clock, args |-> r.args,
                                              call |-> ret.timer.call])]
    /\ UNCHANGED <<today, clock, currentCategory, currentEditingTaskId, dom>>

\* A tick of time passes
Tick ==
    /\ ~TimerDue
    /\ clock < MaxTime
    /\ clock' = clock + 1
    /\ UNCHANGED <<localStorage, today, currentCategory, currentEditingTaskId, dom, ret>>

NextDebounce ==
    \/ CallDebounced
    \/ TimerFires
    \/ Tick

SpecDebounce == InitDebounce /\ [][NextDebounce]_vars

-----------------------------------------------------------------------------
(* Properties of the store specification *)

\* Whether `key` is a day key mastery_<YYYY-MM-DD> whose day is before the cutoff's day
PrecedesCutoff(key, now) ==
    /\ StartsWith(key, "mastery_")
    /\ LET date == ParseDate(SubSeq(key, Len("mastery_") + 1, Len(key)), FALSE) IN
       date.valid /\ date.day < CutoffDay(now)

\* C1: after the retention sweep has run, no key mastery_<YYYY-MM-DD> whose date
\* precedes the cutoff (now minus 3 months) is left in the store, and every other
\* key is still there with its value unchanged.
C1_SweepRemovesOldDays ==
    (ret.op = "set" /\ ret.sweeps = 1) =>
        /\ \A k \in DOMAIN ret.swept : ~PrecedesCutoff(k, today)
        /\ \A k \in DOMAIN ret.before :
               ~PrecedesCutoff(k, today) => (k \in DOMAIN ret.swept /\ ret.swept[k] = ret.before[k])

\* C2: safeLocalStorageSet never raises; a first write that fails with
\* QuotaExceededError is followed by exactly one sweep and exactly one retry, and
\* the call returns true iff the retry succeeds; a first write that fails for any
\* other reason returns false with no sweep, no retry and the store as it was; a
\* call that returns true has stored the serialised value under the key.
C2_SetSweepsAndRetriesOnce ==
    ret.op = "set" =>
        /\ ~ret.raised
        /\ ret.first = "ok" => (ret.result /\ ret.sweeps = 0 /\ ret.writes = 1)
        /\ ret.first = "QuotaExceededError" =>
               (ret.sweeps = 1 /\ ret.writes = 2 /\ ret.result = (ret.retry = "ok"))
        /\ ret.first \notin {"ok", "QuotaExceededError"} =>
               (~ret.result /\ ret.sweeps = 0 /\ ret.writes = 1 /\ localStorage = ret.before)
        /\ ret.result =>
               (ret.key \in DOMAIN localStorage /\ localStorage[ret.key] = JSONStringify(ret.value))

\* A quota failure, a sweep, and a retry that succeeds
C2_Witness ==
    /\ ret.op = "set"
    /\ ret.first = "QuotaExceededError"
    /\ ret.retry = "ok"
    /\ ret.sweeps = 1
    /\ ret.result

\* The stored texts for which safeLocalStorageGet falls back: none, the empty
\* string, a text that is not JSON, and JSON null under a mastery_ key
FallsBack(store, key) ==
    \/ key \notin DOMAIN store
    \/ /\ key \in DOMAIN store
       /\ \/ "raw" \in DOMAIN store[key]
          \/ StartsWith(key, "mastery_") /\ store[key] = [json |-> Null]

\* C3: safeLocalStorageGet(key, fallback) never raises, and for a missing key, an
\* empty stored string, a text that is not valid JSON, or a stored JSON null under
\* a mastery_ key it returns exactly the given fallback.
C3_GetFallsBack ==
    ret.op = "get" =>
        /\ ~ret.raised
        /\ FallsBack(localStorage, ret.key) => ret.value = ret.fallback

\* JSON null stored under today's key is answered with the fallback
C3_Witness ==
    /\ ret.op = "get"
    /\ ret.key = TodayKey
    /\ TodayKey \in DOMAIN localStorage
    /\ localStorage[TodayKey] = [json |-> Null]
    /\ ret.fallback = EmptyObject
    /\ ret.value = EmptyObject

\* A value with `domains` and `tasks` defined and a boolean `alignment`
FullyShaped(v) ==
    /\ v.t = "object"
    /\ HasField(v, "domains")
    /\ HasField(v, "tasks")
    /\ HasField(v, "alignment")
    /\ TypeOf(v.o["alignment"]) = "boolean"

IsDayKey(key) ==
    /\ StartsWith(key, "mastery_")
    /\ ParseDate(SubSeq(key, Len("mastery_") + 1, Len(key)), FALSE).valid

\* Whether the key holds a text that parses to a JSON object
HoldsObject(store, key) ==
    /\ key \in DOMAIN store
    /\ "json" \in DOMAIN store[key]
    /\ store[key].json.t = "object"

-----------------------------------------------------------------------------
(* Properties of the operation specification *)

\* The days the operation specification passes through
Days == 0..MaxDay

\* Whether the store holds a record of day n with a totalXP field, and the record
HasTotalXP(store, n) ==
    /\ DayKey(n) \in DOMAIN store
    /\ "json" \in DOMAIN store[DayKey(n)]
    /\ HasField(store[DayKey(n)].json, "totalXP")
StoredRecord(store, n) == store[DayKey(n)].json

-----------------------------------------------------------------------------
(* Properties of the streak specification *)

\* The record stored for the day i days before `now`, as an object, if there is one
HasRecord(store, now, i) ==
    /\ DayKey(now - i) \in DOMAIN store
    /\ "json" \in DOMAIN store[DayKey(now - i)]
    /\ store[DayKey(now - i)].json.t = "object"
RecordAt(store, now, i) == store[DayKey(now - i)].json.o

\* The sum of every domains[*].total plus the XP of every completed task
SummedXP(rec) ==
    LET domains == IF "domains" \in DOMAIN rec THEN rec["domains"] ELSE <<>>
        tasks == IF "tasks" \in DOMAIN rec THEN rec["tasks"] ELSE <<>>
    IN SumSet([d \in DOMAIN domains |-> domains[d].total], DOMAIN domains)
       + SumSet([i \in 1..Len(tasks) |-> tasks[i].xp], {i \in 1..Len(tasks) : tasks[i].completed})

\* effectiveXP as the spec words it: totalXP when the field is set
EffectiveXPWhenSet(rec) ==
    IF "totalXP" \in DOMAIN rec THEN rec["totalXP"] ELSE SummedXP(rec)

\* effectiveXP as the code computes it: totalXP when the field is set and not 0
EffectiveXP(rec) ==
    IF "totalXP" \in DOMAIN rec /\ rec["totalXP"] # 0 THEN rec["totalXP"] ELSE SummedXP(rec)

\* A day counts: its record has alignment true and effectiveXP >= 160
Qualifies(store, now, i) ==
    /\ HasRecord(store, now, i)
    /\ "alignment" \in DOMAIN RecordAt(store, now, i)
    /\ RecordAt(store, now, i)["alignment"] = Bool(TRUE)
    /\ EffectiveXP(RecordAt(store, now, i)) >= StreakThreshold

\* The length of the maximal run of counting days that ends at yesterday, 30 at most
MaximalRun(store, now) ==
    CHOOSE k \in 0..StreakWalkDays :
        /\ \A i \in 1..k : Qualifies(store, now, i)
        /\ k = StreakWalkDays \/ ~Qualifies(store, now, k + 1)

\* C6: the streak loadStreak computes is the length of the maximal contiguous run
\* of days ending at yesterday, over at most 30 days, in which each day's record
\* has alignment true and effectiveXP >= 160; the walk stops at the first day that
\* fails and does not skip it, and today's record (which MaximalRun does not read)
\* does not change the value.
C6_StreakIsMaximalRun ==
    ret.op = "loadStreak" =>
        /\ dom.streakCount = MaximalRun(localStorage, today)
        /\ dom.streakCount <= StreakWalkDays

\* Five counting days, then an aligned day with 159 XP, then a counting day: 5
C6_Witness ==
    /\ ret.op = "loadStreak"
    /\ dom.streakCount = 5
    /\ HasRecord(localStorage, today, 6)
    /\ RecordAt(localStorage, today, 6)["alignment"] = Bool(TRUE)
    /\ EffectiveXP(RecordAt(localStorage, today, 6)) = 159
    /\ Qualifies(localStorage, today, 7)
    /\ HasRecord(localStorage, today, 0)

-----------------------------------------------------------------------------
(* Properties of the momentum specification *)

\* A domain's activity total plus the XP of the record's completed tasks whose
\* category the category table maps to that domain
DomainXPWithTasks(store, now, i, domain) ==
    IF ~HasRecord(store, now, i) THEN 0
    ELSE LET rec == RecordAt(store, now, i)
             domains == IF "domains" \in DOMAIN rec THEN rec["domains"] ELSE <<>>
             tasks == IF "tasks" \in DOMAIN rec THEN rec["tasks"] ELSE <<>>
         IN (IF domain \in DOMAIN domains THEN domains[domain].total ELSE 0)
            + SumSet([k \in 1..Len(tasks) |-> tasks[k].xp],
                     {k \in 1..Len(tasks) : /\ tasks[k].completed
                                            /\ TASK_CATEGORIES[tasks[k].category].domain = domain})

\* C8: getLast7DaysData returns exactly 7 entries, for today and the 6 days before
\* it, most recent first, and in each entry the value of each of the four domains
\* is that domain's activity total plus the XP of the day's completed tasks whose
\* category maps to that domain in the category table.
C8_EntriesAttributeTaskXP ==
    ret.op = "getLast7DaysData" =>
        /\ Len(ret.days) = 7
        /\ \A k \in 1..Len(ret.days) :
               /\ ret.days[k].date = ToISODate(today - (k - 1))
               /\ DOMAIN ret.days[k].domains = DomainNames
               /\ \A d \in DomainNames :
                      ret.days[k].domains[d] = DomainXPWithTasks(localStorage, today, k - 1, d)

\* C9 as stated: replacing one day of less than 160 XP by a day of 160 XP or more
\* never lowers the score calculateMomentumScore returns.
C9_ScoreNeverLowered ==
    ret.op = "compareWeeks" => ret.scoreA >= ret.scoreB

\* C9, amended: replacing one day of less than 160 XP of a 7-day window by a day
\* of 160 XP or more, every other day unchanged, raises the consistency factor by
\* 100/7 and does not lower the intensity factor; the composite score is not
\* lowered whenever the growth and balance factors are not lowered.  (When the
\* replaced day is one of the four older days the growth factor can fall, and
\* the score with it.)
C9_ScoreNotLoweredUnlessGrowthOrBalanceIs ==
    ret.op = "compareWeeks" =>
        /\ ret.xpA >= StreakThreshold
        /\ ret.factorsA.consistency = FracAdd(ret.factorsB.consistency, Frac(100, 7))
        /\ FracLeq(ret.factorsB.intensity, ret.factorsA.intensity)
        /\ (/\ FracLeq(ret.factorsB.growth, ret.factorsA.growth)
            /\ FracLeq(ret.factorsB.balance, ret.factorsA.balance))
           => ret.scoreA >= ret.scoreB

\* A replacement that lowers neither growth nor balance and raises the score
C9_Witness ==
    /\ ret.op = "compareWeeks"
    /\ FracLeq(ret.factorsB.growth, ret.factorsA.growth)
    /\ FracLeq(ret.factorsB.balance, ret.factorsA.balance)
    /\ FracLess(Frac(0, 1), ret.factorsB.balance)
    /\ ret.scoreA > ret.scoreB

\* A factor between 0 and 100
InPercentRange(f) == FracLeq(Frac(0, 1), f) /\ FracLeq(f, Frac(100, 1))

\* C10: for every window of well-formed day records the score calculateMomentumScore
\* returns is an integer between 0 and 100, and each of the factors consistency,
\* growth, balance and intensity lies in [0, 100].
C10_ScoreAndFactorsInRange ==
    ret.op = "calculateMomentumScore" =>
        /\ ret.score \in 0..100
        /\ InPercentRange(ret.factors.consistency)
        /\ InPercentRange(ret.factors.growth)
        /\ InPercentRange(ret.factors.balance)
        /\ InPercentRange(ret.factors.intensity)

\* A week whose recent days outgrow the older ones so far that the growth factor
\* is held at 100, with every factor above 0
C10_Witness ==
    /\ ret.op = "calculateMomentumScore"
    /\ ret.factors.growth = Frac(100, 1)
    /\ FracLess(Frac(0, 1), ret.factors.consistency)
    /\ FracLess(Frac(0, 1), ret.factors.balance)
    /\ FracLess(Frac(0, 1), ret.factors.intensity)
    /\ HasRecord(localStorage, today, 6)
    /\ ret.score > 50

-----------------------------------------------------------------------------
(* Properties of the momentum defaults *)

\* The number of the window's days that have a record in the store
DaysOfHistory(store, now) ==
    Cardinality({i \in 0..(WindowDays - 1) : HasItem(store, DayKey(now - i))})

\* C11: when the store holds no record for any of the trailing 7 days,
\* calculateMomentumScore returns score 0, trend 'starting' and the 'Begin your
\* journey...' recommendation; and the trend is 'starting' whenever fewer than
\* 4 days of the window have a record.
C11_EmptyWindowDefaults ==
    ret.op = "calculateMomentumScore" =>
        /\ DaysOfHistory(localStorage, today) = 0 =>
               /\ ret.score = 0
               /\ ret.trend = "starting"
               /\ ret.recommendation = "Begin your journey with consistent daily effort."
        /\ DaysOfHistory(localStorage, today) < 4 => ret.trend = "starting"

-----------------------------------------------------------------------------
(* Properties of the weak-domain specification *)

\* The XP of `domain` activity summed over the 7 days of the window
WindowDomainTotal(store, now, domain) ==
    SumSeq([k \in 1..WindowDays |->
               LET data == safeLocalStorageGet(store, DayKey(now - (k - 1)), EmptyObject)
               IN IF domain \in DOMAIN DomainsOf(data) THEN DomainsOf(data)[domain].total ELSE 0])

\* Whether findWeakDomains has reported `domain`
ReportedWeak(domain) ==
    \E k \in 1..Len(ret.weakDomains) : ret.weakDomains[k].name = Capitalize(domain)

\* C12: findWeakDomains reports a domain as weak if and only if its average
\* over the 7-day window is strictly below 70% of its target, 28 for the target
\* 40: with an average of exactly 28 (196 XP in the week) it is not weak, with any
\* average below 28 it is.
C12_WeakIffBelowSeventyPercent ==
    ret.op = "findWeakDomains" =>
        \A d \in DomainNames :
            ReportedWeak(d) <=> WindowDomainTotal(localStorage, today, d) * 10
                                    < 7 * WindowDays * DOMAINS[d].target

\* A week where one domain averages exactly 28 and is not reported, while
\* another averages just below 28 and is
C12_Witness ==
    /\ ret.op = "findWeakDomains"
    /\ WindowDomainTotal(localStorage, today, "physical") = 196
    /\ ~ReportedWeak("physical")
    /\ WindowDomainTotal(localStorage, today, "creation") = 195
    /\ ReportedWeak("creation")

-----------------------------------------------------------------------------
(* Properties of the probability specification *)

\* C13: for all non-negative integer streak, tier-1 audition, callback and role
\* counts, calculateHollywoodProbability returns a total between 0 and 95, and
\* breakdown components of at most 20 (consistency), 30 (opportunities),
\* 30 (callbacks) and 20 (bookings).
C13_TotalAndSharesCapped ==
    ret.op = "calculateHollywoodProbability" =>
        /\ 0 <= ret.total /\ ret.total <= 95
        /\ 0 <= ret.breakdown.consistency /\ ret.breakdown.consistency <= 20
        /\ 0 <= ret.breakdown.opportunities /\ ret.breakdown.opportunities <= 30
        /\ 0 <= ret.breakdown.callbacks /\ ret.breakdown.callbacks <= 30
        /\ 0 <= ret.breakdown.bookings /\ ret.breakdown.bookings <= 20

\* Counts past every cap: the shares sum to 100 and the total returned is 95
C13_Witness ==
    /\ ret.op = "calculateHollywoodProbability"
    /\ dom.streakCount > 25 /\ dom.tier1Auditions > 50
    /\ dom.callbacksCount > 7 /\ dom.rolesCount > 1
    /\ ret.breakdown = [consistency |-> 20, opportunities |-> 30, callbacks |-> 30,
                        bookings |-> 20]
    /\ ret.total = 95

\* C14: increasing any single input of calculateHollywoodProbability (streak,
\* tier-1 auditions, callbacks or roles), the other three held fixed, never
\* decreases the rounded total returned.
C14_TotalMonotone ==
    ret.op = "compareProbabilities" => ret.totalA >= ret.totalB

\* An increase of the callbacks that raises the total, and the calls compared
\* are on counts below the caps
C14_Witness ==
    /\ ret.op = "compareProbabilities"
    /\ ret.input = "callbacksCount"
    /\ dom.callbacksCount = 6
    /\ ret.by = 2
    /\ ret.totalA > ret.totalB
    /\ ret.totalA < 95

-----------------------------------------------------------------------------
(* Properties of the refresh specification *)

\* C15: the metrics computations and the periodic refreshes that run them
\* (calculateMomentumScore, getLast7DaysData, findWeakDomains,
\* calculateHollywoodProbability, loadStreak, updateMomentumDisplay,
\* updateProbabilityDisplay) leave the store unchanged: no key is created,
\* deleted or rewritten, including when a day key that is read does not exist.
C15_RefreshesLeaveStore == [][localStorage' = localStorage]_vars

\* The momentum refresh and then the streak refresh have run on a week with a
\* day that has a record and a day, read by both, that has none
C15_Witness ==
    /\ ret.op = "loadStreak"
    /\ dom.momentumTrend # ""
    /\ ~HasItem(localStorage, DayKey(today - 1))
    /\ HasItem(localStorage, DayKey(today - 2))

-----------------------------------------------------------------------------
(* Properties of the validation specification *)

\* Today's record as read from `store`, and whether it holds alignment = true
RecordOfToday(store) == safeLocalStorageGet(store, DayKey(today), EmptyObject)
IsAligned(store) == AlignmentOf(RecordOfToday(store)) = Bool(TRUE)

\* C16: saveAlignment sets alignment only when the trimmed evidence text has at
\* least 30 characters and the day's recomputed XP (domain totals plus the XP of
\* completed tasks) is at least 160; when either condition fails today's record
\* is left exactly as it was, and when it writes, it writes alignment = true, the
\* trimmed text and the recomputed XP.
C16_AlignmentGated ==
    ret.op = "saveAlignment" =>
        LET xp == RecomputedXP(RecordOfToday(ret.before))
            met == Len(Trim(ret.text)) >= 30 /\ xp >= 160
        IN /\ ~met => localStorage = ret.before
           /\ localStorage # ret.before =>
                  /\ met
                  /\ IsAligned(localStorage)
                  /\ RecordOfToday(localStorage).o["alignmentReason"] = Trim(ret.text)
                  /\ RecordOfToday(localStorage).o["totalXP"] = xp
           /\ \A k \in DOMAIN ret.before :
                  k # DayKey(today) => k \in DOMAIN localStorage /\ localStorage[k] = ret.before[k]

\* A reason of 30 characters once trimmed on a day of 85 XP: nothing is written
C16_Witness ==
    /\ ret.op = "saveAlignment"
    /\ Len(Trim(ret.text)) = 30
    /\ HasItem(ret.before, DayKey(today))
    /\ RecomputedXP(RecordOfToday(ret.before)) = 85
    /\ ~IsAligned(localStorage)
    /\ localStorage = ret.before

\* C17: a rejected task input leaves the store unchanged: addTask with a text
\* that is empty once trimmed, and saveTaskEdit with such a text or with an XP of
\* 0 or less, write nothing to today's record.
C17_RejectedTaskInputWritesNothing ==
    /\ (ret.op = "addTask" /\ Trim(ret.text) = "") => localStorage = ret.before
    /\ (ret.op = "saveTaskEdit" /\ (Trim(ret.text) = "" \/ ret.xp <= 0))
           => localStorage = ret.before

\* An edit of a task of today's record saved with a text and a negative XP
C17_Witness ==
    /\ ret.op = "saveTaskEdit"
    /\ Trim(ret.text) # ""
    /\ ret.xp < 0
    /\ ret.editing # 0
    /\ FindTask(TasksOf(RecordOfToday(ret.before)), ret.editing) # 0
    /\ localStorage = ret.before

-----------------------------------------------------------------------------
(* Properties of the operation specification: the special categories *)

\* The tasks of the day records in the store
StoredTasks ==
    UNION {{TasksOf(StoredRecord(localStorage, n))[i] :
                i \in 1..Len(TasksOf(StoredRecord(localStorage, n)))} :
           n \in {m \in Days : DayKey(m) \in DOMAIN localStorage}}

\* C19: in every reachable store state, every stored task of category 'scary'
\* has xp 10 and every stored task of category 'critical' has xp 5, after any
\* sequence of addTask and saveTaskEdit.
C19_SpecialCategoriesCarryFixedXP ==
    \A task \in StoredTasks :
        /\ task.category = "scary" => task.xp = 10
        /\ task.category = "critical" => task.xp = 5

-----------------------------------------------------------------------------
(* Properties of the backup specification *)

\* The entries of the logs stored under the keys that start with `prefix` or
\* hold `infix`
LogEntries(store, keys) ==
    UNION {{ParseLog(store, k).list[i] : i \in 1..Len(ParseLog(store, k).list)} :
           k \in {k \in DOMAIN store \cap keys : ParseLog(store, k).ok}}
IndustryLogKeys ==
    {"industry_" \o InteractionTypes[n].key \o "_" \o MonthOf(today) : n \in DOMAIN InteractionTypes}
HistoryLogKeys == {m \o "_history_" \o MonthOf(today) : m \in MetricInputs}

\* C18: every entry persisted by logIndustryInteraction (field `details`) and by
\* incrementMetric (field `project`) holds detail text of at least 5
\* characters; an input whose detail text does not reach 5 characters adds no
\* entry.
C18_LoggedDetailHasFiveChars ==
    /\ \A e \in LogEntries(localStorage, IndustryLogKeys) : Len(e.details) >= 5
    /\ \A e \in LogEntries(localStorage, HistoryLogKeys) : Len(e.project) >= 5

\* The persisted keys of the documented namespace: the daily records, goals,
\* reviews and counts (mastery_*), the industry_* logs, the
\* <metricId>_history_<YYYY-MM> logs, current_intensity and the runway values
InNamespace(key) ==
    \/ StartsWith(key, "mastery_")
    \/ StartsWith(key, "industry_")
    \/ key \in HistoryLogKeys
    \/ key = "current_intensity"

\* C20: the object produced by backupEntireSystem contains every persisted
\* application key of the documented namespace with its stored value (daily
\* records, goals, reviews, industry_* logs, <metricId>_history_<YYYY-MM> logs,
\* mastery_<metricId>_<YYYY-MM> counts, current_intensity, runway values) plus
\* _metadata, and _metadata.totalEntries is the number of backed-up keys.
C20_BackupHoldsEveryKey ==
    ret.op = "backupEntireSystem" =>
        /\ \A k \in DOMAIN ret.before :
               InNamespace(k) => k \in DOMAIN ret.entries /\ ret.entries[k] = ret.before[k]
        /\ ret.metadata.system = "Hollywood Mastery Destiny Protocol"
        /\ ret.metadata.totalEntries = Cardinality(DOMAIN ret.entries)

-----------------------------------------------------------------------------
(* Properties of the restore specification *)

\* The store without its last_backup_time
ExceptBackupTime(store) == [k \in DOMAIN store \ {"last_backup_time"} |-> store[k]]

\* The store's last_backup_time, as a set of at most one item
BackupTimeOf(store) ==
    IF HasItem(store, "last_backup_time") THEN {store["last_backup_time"]} ELSE {}

\* A round trip has been made: the last backup downloaded was restored, with
\* confirmation and to completion, onto the store as that backup left it
RoundTripMade ==
    /\ ret.op = "restoreSystemBackup"
    /\ ret.hasFile
    /\ ret.text = ret.file
    /\ ret.confirmed
    /\ ret.alert = "complete"
    /\ ExceptBackupTime(ret.before) = ExceptBackupTime(ret.source)

NotJSON(text) == "json" \notin DOMAIN text

\* The file picked is a JSON object without _metadata
MetadataMissing(text) ==
    /\ ~NotJSON(text)
    /\ text.json.t = "object"
    /\ "_metadata" \notin DOMAIN text.json.o

\* The file picked is a JSON object whose _metadata names another system
SystemDiffers(text) ==
    /\ ~NotJSON(text)
    /\ text.json.t = "object"
    /\ "_metadata" \in DOMAIN text.json.o
    /\ text.json.o["_metadata"].system # "Hollywood Mastery Destiny Protocol"

\* C22: restoreSystemBackup leaves the store as it was, no key removed and
\* none written, when the file is not valid JSON, when _metadata is missing,
\* when _metadata.system differs, or when the user declines the confirmation.
C22_RejectedRestoreLeavesStore ==
    /\ ret.op = "restoreSystemBackup"
    /\ \/ NotJSON(ret.text)
       \/ MetadataMissing(ret.text)
       \/ SystemDiffers(ret.text)
       \/ ~ret.confirmed
    => localStorage = ret.before

\* The backup of another system was picked and confirmed over a store that
\* holds a key the restore would have cleared and that the file would have
\* overwritten
C22_Witness ==
    /\ ret.op = "restoreSystemBackup"
    /\ SystemDiffers(ret.text)
    /\ ret.confirmed
    /\ ret.alert = "invalid"
    /\ \E k \in DOMAIN ret.before : RestoreClears(k) /\ k \in FileKeys(ret.text)
                                     /\ ret.before[k] # ret.text.json.o[k].s

\* The namespace the restore is to clear
InClearedNamespace(key) ==
    \/ StartsWith(key, "mastery_")
    \/ StartsWith(key, "industry_")
    \/ key = "current_intensity"

\* C24: after a confirmed restoreSystemBackup onto a non-empty store, the keys
\* of the cleared namespace (mastery_*, industry_*, current_intensity) in the
\* store are the non-metadata keys of the backup, each with the backup's
\* value: no such key that the backup lacks remains.
C24_RestoreLeavesOnlyBackupKeys ==
    /\ ret.op = "restoreSystemBackup"
    /\ ret.confirmed
    /\ ret.alert = "complete"
    /\ DOMAIN ret.before # {}
    => /\ {k \in DOMAIN localStorage : InClearedNamespace(k)} = FileKeys(ret.text)
       /\ \A k \in FileKeys(ret.text) : localStorage[k] = ret.text.json.o[k].s

\* scripts.js:1603: the four metrics of loadMetrics
Metrics == {"tier1-auditions", "tier2-auditions", "callbacks-count", "roles-count"}

\* The count persisted under mastery_<metricId>_<YYYY-MM>, 0 when there is none
StoredCount(store, metricId, month) ==
    LET key == "mastery_" \o metricId \o "_" \o month IN
    IF HasItem(store, key) THEN store[key].json.n ELSE 0

\* scripts.js:1605-1608: the count loadMetrics shows, the length of the history
loadMetrics(store, metricId, month) ==
    Len(ParseLog(store, metricId \o "_history_" \o month).list)

\* For each metric the persisted count is the number of history entries
CountsAgree(store, month) ==
    \A metricId \in Metrics :
        StoredCount(store, metricId, month) = loadMetrics(store, metricId, month)

\* C30, for the store after a restore: when the persisted count of each metric
\* equals the number of entries of its history before a confirmed, completed
\* restore, it does so after it, and the count loadMetrics shows agrees with
\* the persisted count.
C30_CountMatchesHistory ==
    /\ ret.op = "restoreSystemBackup"
    /\ ret.confirmed
    /\ ret.alert = "complete"
    /\ CountsAgree(ret.before, MonthOf(ret.at))
    => CountsAgree(localStorage, MonthOf(ret.at))

-----------------------------------------------------------------------------
(* Properties of the startup specification *)

\* C23: malformed persisted data never makes an operation raise or stops the
\* application: whichever persisted key holds a text that is no JSON,
\* initializeApp raises nothing and runs all of its steps to completion.
C23_StartupCompletes ==
    ret.op = "initializeApp" =>
        /\ ~ret.raised
        /\ ret.completed = Len(InitSteps(today))

-----------------------------------------------------------------------------
(* Properties of the debounce specification *)

\* Call c is followed by another call less than `wait` later: it is not the
\* last call of its burst
Superseded(c) ==
    /\ c < Len(ret.calls)
    /\ ret.calls[c + 1].at < ret.calls[c].at + DebounceWait

\* The invocations of the wrapped function made for call c
RunsOf(c) == {i \in DOMAIN ret.runs : ret.runs[i].call = c}

\* The activities recorded in today's record
ActivitiesRecorded ==
    LET ds == DomainsOf(TodayData(localStorage)) IN
    SumSet([d \in DOMAIN ds |-> Len(ds[d].activities)], DOMAIN ds)

\* C25: of a burst of calls of the debounced function, each less than `wait`
\* after the one before, only the last is executed: once, `wait` after it was
\* made and with its arguments; the earlier calls are never executed, so the
\* store is credited at most once for the burst.
C25_BurstRunsLastCallOnce ==
    /\ \A c \in DOMAIN ret.calls :
        IF Superseded(c)
        THEN RunsOf(c) = {}
        ELSE \/ /\ ret.timer.armed
                /\ ret.timer.call = c
                /\ RunsOf(c) = {}
                /\ clock <= ret.calls[c].at + DebounceWait
             \/ /\ Cardinality(RunsOf(c)) = 1
                /\ \A i \in RunsOf(c) :
                    /\ ret.runs[i].args = ret.calls[c].args
                    /\ ret.runs[i].at = ret.calls[c].at + DebounceWait
    /\ \A i \in DOMAIN ret.runs : ret.runs[i].call \in DOMAIN ret.calls
    /\ ActivitiesRecorded <= Len(ret.runs)

\* A burst of three calls with differing arguments has been executed once,
\* and the store credited once
C25_Witness ==
    /\ Len(ret.calls) = 3
    /\ Superseded(1)
    /\ Superseded(2)
    /\ ret.calls[1].at < ret.calls[2].at
    /\ ret.calls[2].at < ret.calls[3].at
    /\ ret.calls[2].args # ret.calls[3].args
    /\ Len(ret.runs) = 1
    /\ ret.runs[1].call = 3
    /\ ActivitiesRecorded = 1

-----------------------------------------------------------------------------
(* Further properties of the operation specification *)

\* C26: after every completed user operation (addTask, toggleTask,
\* saveTaskEdit, deleteTask, addQuickDomainXP, addDomainActivity,
\* saveAlignment) every stored day record with a totalXP is aligned and its
\* totalXP equals the sum of its domain totals plus the XP of its completed
\* tasks: the cache is never stale.
C26_CacheNeverStale ==
    \A n \in Days :
        HasTotalXP(localStorage, n) =>
            /\ Truthy(AlignmentOf(StoredRecord(localStorage, n)))
            /\ StoredRecord(localStorage, n).o["totalXP"] =
                   RecomputedXP(StoredRecord(localStorage, n))

\* Whether the store holds an aligned record of day n
AlignedDay(store, n) ==
    /\ DayKey(n) \in DOMAIN store
    /\ "json" \in DOMAIN store[DayKey(n)]
    /\ store[DayKey(n)].json.t = "object"
    /\ Truthy(AlignmentOf(StoredRecord(store, n)))

\* Whether loadStreak, run on the day after day n, counts day n
CountsTowardStreak(store, n) == StreakWalk(store, n + 1, 1, 0) >= 1

\* C27: alignment is never revoked: no operation sets a day's alignment back
\* to false once it is true, even when the day's XP is brought below 160; and
\* such an aligned day with XP below 160 does not count toward the streak.
C27_AlignmentKeptAndLowDaysUncounted ==
    [][\A n \in Days :
          /\ AlignedDay(localStorage, n) => AlignedDay(localStorage', n)
          /\ (/\ AlignedDay(localStorage', n)
              /\ RecomputedXP(StoredRecord(localStorage', n)) < StreakThreshold)
             => ~CountsTowardStreak(localStorage', n)]_vars

-----------------------------------------------------------------------------
(* Further properties of the momentum specification *)

\* The average raw XP of the three most recent days of the window
RecentAverage(store, now) ==
    Frac(SumSeq([i \in 1..3 |-> WindowEntry(store, now, i - 1).totalXP]), 3)

\* The trend the score and the recent average determine
TrendOf(score, recent) ==
    CASE FracLess(FracAdd(recent, Frac(10, 1)), Frac(score, 1)) -> "accelerating"
      [] OTHER ->
         CASE FracLess(FracAdd(recent, Frac(5, 1)), Frac(score, 1)) -> "growing"
           [] OTHER ->
              CASE FracLeq(FracAdd(recent, Frac(0 - 5, 1)), Frac(score, 1)) -> "steady"
                [] OTHER -> "declining"

\* C28: the trend is a function of the composite score and of the average raw
\* XP of the three most recent days only, whatever days[3:6] hold; so the
\* trend is 'declining' whenever the three most recent days average more than
\* 105 XP.
C28_TrendIgnoresOlderDays ==
    ret.op = "calculateMomentumScore" =>
        /\ ret.trend = TrendOf(ret.score, RecentAverage(localStorage, today))
        /\ FracLess(Frac(105, 1), RecentAverage(localStorage, today)) => ret.trend = "declining"

\* The three most recent days average more than 105 XP, the three before them
\* hold no XP at all, and the trend is 'declining'
C28_Witness ==
    /\ ret.op = "calculateMomentumScore"
    /\ FracLess(Frac(105, 1), RecentAverage(localStorage, today))
    /\ \A i \in 3..5 : WindowEntry(localStorage, today, i).totalXP = 0
    /\ ret.score > 10
    /\ ret.trend = "declining"

\* The item stored for day n, as a set of at most one item
ItemOfDay(store, n) == IF DayKey(n) \in DOMAIN store THEN {store[DayKey(n)]} ELSE {}

====
